---- MODULE Spec2Model ----
(***************************************************************************)
(* A model of the rosbag reader: the byte cursor, the header field         *)
(* iterator, the generic record reader with its five record variants, the  *)
(* three section iterators and the bag opener.                             *)
(*                                                                         *)
(* Bytes are the integers 0..255 and a buffer (bytes::Bytes) is a sequence *)
(* of bytes.  A fallible call returns a record with an `ok` flag: the      *)
(* value on success, the error kind (a RosError variant name) on failure.  *)
(* Option<T> is <<>> for None and <<v>> for Some(v).                       *)
(***************************************************************************)
EXTENDS Integers, Sequences, FiniteSets, TLC

VARIABLES
    store,    \* the storage object behind ObjectCursor: the bag file's bytes
    bag,      \* the RosBag value once RosBag::new returned, or the open error
    it,       \* the iterator the consumer is driving (cursor data, pos, offset)
    last,     \* the last call the consumer made and what it returned
    erred,    \* whether the current iterator has returned Some(Err(..)) before
    codec,    \* what the external bzip2 / lz4 decoders returned so far
    status,   \* "running", or "panicked" once a call has aborted the program
    probe,    \* an earlier next() of the current iterator, kept for comparison
    ent       \* the entries iterator of the IndexData / ChunkInfo just read

vars == <<store, bag, it, last, erred, codec, status, probe, ent>>

----------------------------------------------------------------------------
(* Program constants.                                                      *)

VERSION_STRING == <<35, 82, 79, 83, 66, 65, 71, 32, 86, 50, 46, 48, 10>>
VERSION_LEN == Len(VERSION_STRING)
ROSBAG_HEADER_SIZE == 4096
ROSBAG_HEADER_OP == 3
MessageData_OP == 2
IndexData_OP == 4
Chunk_OP == 5
ChunkInfo_OP == 6
Connection_OP == 7

(* Field names and values the parsers compare against, as ASCII bytes.     *)
S_op == <<111, 112>>
S_index_pos == <<105, 110, 100, 101, 120, 95, 112, 111, 115>>
S_conn_count == <<99, 111, 110, 110, 95, 99, 111, 117, 110, 116>>
S_chunk_count == <<99, 104, 117, 110, 107, 95, 99, 111, 117, 110, 116>>
S_ver == <<118, 101, 114>>
S_conn == <<99, 111, 110, 110>>
S_count == <<99, 111, 117, 110, 116>>
S_compression == <<99, 111, 109, 112, 114, 101, 115, 115, 105, 111, 110>>
S_size == <<115, 105, 122, 101>>
S_none == <<110, 111, 110, 101>>
S_bz2 == <<98, 122, 50>>
S_lz4 == <<108, 122, 52>>
S_chunk_pos == <<99, 104, 117, 110, 107, 95, 112, 111, 115>>
S_start_time == <<115, 116, 97, 114, 116, 95, 116, 105, 109, 101>>
S_end_time == <<101, 110, 100, 95, 116, 105, 109, 101>>
S_topic == <<116, 111, 112, 105, 99>>
S_type == <<116, 121, 112, 101>>
S_md5sum == <<109, 100, 53, 115, 117, 109>>
S_message_definition ==
    <<109, 101, 115, 115, 97, 103, 101, 95, 100, 101, 102, 105, 110, 105, 116, 105, 111, 110>>
S_callerid == <<99, 97, 108, 108, 101, 114, 105, 100>>
S_latching == <<108, 97, 116, 99, 104, 105, 110, 103>>
S_time == <<116, 105, 109, 101>>

----------------------------------------------------------------------------
(* Results and options.                                                    *)

None == <<>>
Some(v) == <<v>>

(* An error is the tuple of its RosError variant name and, for the three  *)
(* Unexpected..Record variants, the record kind it carries.                *)
OutOfBounds == <<"OutOfBounds">>
InvalidHeader == <<"InvalidHeader">>
InvalidRecord == <<"InvalidRecord">>
UnsupportedVersion == <<"UnsupportedVersion">>
Bzip2DecompressionError == <<"Bzip2DecompressionError">>
Lz4DecompressionError == <<"Lz4DecompressionError">>
FromUtf8Error == <<"FromUtf8Error">>   \* std::string::FromUtf8Error, not a RosError

(* `let v = e; F(v)`: the value of e, bound once.                          *)
Let(e, F(_)) == F(e)

Err(e) == [ok |-> FALSE, err |-> e]
ErrAt(e, pos) == [ok |-> FALSE, err |-> e, pos |-> pos]

(* byteorder::LE::read_u32 / read_u64.  The upper half of a u64 is added   *)
(* only when it is not zero.                                               *)
LE_read_u32(b) == b[1] + 256 * b[2] + 65536 * b[3] + 16777216 * b[4]

LE_read_u64(b) ==
    LET lo == LE_read_u32(SubSeq(b, 1, 4))
        hi == LE_read_u32(SubSeq(b, 5, 8))
    IN  IF hi = 0 THEN lo ELSE lo + 65536 * 65536 * hi

(* A time is two u32s (s, ns) read as the u64 1_000_000_000 * s + ns; the  *)
(* u64 is kept as its two digits in base 10^9, <<high, low>>.              *)
time_of(s, ns) == <<s + (ns \div 1000000000), ns % 1000000000>>

(* std::str::from_utf8 validity of a byte sequence.                        *)
RECURSIVE utf8_valid(_)
utf8_valid(b) ==
    IF b = <<>> THEN TRUE
    ELSE LET c == b[1]
             cont(i) == i <= Len(b) /\ b[i] >= 128 /\ b[i] <= 191
         IN  IF c < 128 THEN utf8_valid(Tail(b))
             ELSE IF c >= 194 /\ c <= 223
                  THEN cont(2) /\ utf8_valid(SubSeq(b, 3, Len(b)))
             ELSE IF c >= 224 /\ c <= 239
                  THEN /\ cont(2) /\ cont(3)
                       /\ (c = 224 => b[2] >= 160)
                       /\ (c = 237 => b[2] <= 159)
                       /\ utf8_valid(SubSeq(b, 4, Len(b)))
             ELSE IF c >= 240 /\ c <= 244
                  THEN /\ cont(2) /\ cont(3) /\ cont(4)
                       /\ (c = 240 => b[2] >= 144)
                       /\ (c = 244 => b[2] <= 143)
                       /\ utf8_valid(SubSeq(b, 5, Len(b)))
             ELSE FALSE

----------------------------------------------------------------------------
(* cursor.rs: Cursor { data, pos }.  Each call returns the new position    *)
(* with its result.                                                        *)

Cursor_len(data) == Len(data)

(* left() that counts only bytes a record header length can be read from.  *)
Cursor_left_of_length_prefix(data, pos) ==
    IF Len(data) - pos < 4 THEN 0 ELSE Len(data) - pos

Cursor_left(data, pos) == Len(data) - pos

(* seek() that refuses the end of the buffer.                              *)
Cursor_seek_before_end(data, cur, pos) ==
    IF pos >= Cursor_len(data)
    THEN ErrAt(OutOfBounds, cur)
    ELSE [ok |-> TRUE, pos |-> pos]

Cursor_seek(data, cur, pos) ==
    IF pos > Cursor_len(data)
    THEN ErrAt(OutOfBounds, cur)
    ELSE [ok |-> TRUE, pos |-> pos]

(* next_bytes() that gives up the rest of the buffer when it fails.        *)
Cursor_next_bytes_draining(data, pos, n) ==
    IF pos + n > Cursor_len(data)
    THEN ErrAt(OutOfBounds, Cursor_len(data))
    ELSE [ok |-> TRUE, pos |-> pos + n, val |-> SubSeq(data, pos + 1, pos + n)]

(* next_bytes(n) with n = 2^64 - k, 0 < k <= pos: pos + n overflows u64.   *)
(* A build with overflow checks panics at the addition, pos untouched; a   *)
(* build without them wraps the sum to pos - k, which passes the bound     *)
(* check, stores it in pos, and panics in Bytes::slice as the range ends   *)
(* before it starts.  The set of positions the cursor may be left at.      *)
Cursor_next_bytes_overflow(data, pos, k) == {pos, pos - k}

Cursor_next_bytes(data, pos, n) ==
    IF pos + n > Cursor_len(data)
    THEN ErrAt(OutOfBounds, pos)
    ELSE [ok |-> TRUE, pos |-> pos + n, val |-> SubSeq(data, pos + 1, pos + n)]

Cursor_next_u32(data, pos) ==
    Let(Cursor_next_bytes(data, pos, 4), LAMBDA r :
        IF r.ok THEN [ok |-> TRUE, pos |-> r.pos, val |-> LE_read_u32(r.val)]
        ELSE r)

(* next_chunk() that puts the cursor back when the chunk is cut short.     *)
Cursor_next_chunk_restoring(data, pos) ==
    Let(Cursor_next_u32(data, pos), LAMBDA n :
        IF ~n.ok THEN n
        ELSE Let(Cursor_next_bytes(data, n.pos, n.val), LAMBDA r :
                 IF r.ok THEN r ELSE ErrAt(r.err, pos)))

Cursor_next_chunk(data, pos) ==
    Let(Cursor_next_u32(data, pos), LAMBDA n :
        IF n.ok THEN Cursor_next_bytes(data, n.pos, n.val) ELSE n)

Cursor_next_time(data, pos) ==
    Let(Cursor_next_u32(data, pos), LAMBDA s :
        IF ~s.ok THEN s
        ELSE Let(Cursor_next_u32(data, s.pos), LAMBDA ns :
                 IF ~ns.ok THEN ns
                 ELSE [ok |-> TRUE, pos |-> ns.pos, val |-> time_of(s.val, ns.val)]))

----------------------------------------------------------------------------
(* record_types/utils.rs                                                   *)

(* The index of the first '=' of a field, 0 when there is none.            *)
position_eq(rec) ==
    LET idx == {i \in 1..Len(rec) : rec[i] = 61}
    IN  IF idx = {} THEN 0 ELSE CHOOSE i \in idx : \A j \in idx : i <= j

read_record(header) ==
    IF Len(header) < 4 THEN Err(InvalidHeader)
    ELSE Let(LE_read_u32(SubSeq(header, 1, 4)), LAMBDA n :
         Let(SubSeq(header, 5, Len(header)), LAMBDA h :
             IF Len(h) < n THEN Err(InvalidHeader)
             ELSE Let(SubSeq(h, 1, n), LAMBDA rec :
                  Let(position_eq(rec), LAMBDA delim :
                      IF delim = 0 THEN Err(InvalidHeader)
                      ELSE IF ~utf8_valid(SubSeq(rec, 1, delim - 1))
                           THEN Err(FromUtf8Error)
                      ELSE [ok |-> TRUE,
                            name |-> SubSeq(rec, 1, delim - 1),
                            val |-> SubSeq(rec, delim + 1, n),
                            rest |-> SubSeq(h, n + 1, Len(h))]))))

(* field_iter.rs: FieldIterator { buf }, the buffer kept as the header     *)
(* bytes and the number of them already consumed.                          *)
FieldIterator_next(data, pos) ==
    IF pos = Len(data) THEN [item |-> None, pos |-> pos]
    ELSE Let(read_record(SubSeq(data, pos + 1, Len(data))), LAMBDA r :
             IF ~r.ok THEN [item |-> Some(r), pos |-> pos]
             ELSE [item |-> Some([ok |-> TRUE, name |-> r.name, val |-> r.val]),
                   pos |-> Len(data) - Len(r.rest)])

check_op(val, op) ==
    IF Len(val) = 1 /\ val[1] = op THEN [ok |-> TRUE] ELSE Err(InvalidRecord)

set_field_u64(field, val) ==
    IF Len(val) # 8 \/ field # None THEN Err(InvalidHeader)
    ELSE [ok |-> TRUE, field |-> Some(LE_read_u64(val))]

set_field_u32(field, val) ==
    IF Len(val) # 4 \/ field # None THEN Err(InvalidHeader)
    ELSE [ok |-> TRUE, field |-> Some(LE_read_u32(val))]

set_field_str(field, val) ==
    IF field # None THEN Err(InvalidHeader)
    ELSE IF ~utf8_valid(val) THEN Err(InvalidHeader)
    ELSE [ok |-> TRUE, field |-> Some(val)]

set_field_time(field, val) ==
    IF Len(val) # 8 \/ field # None THEN Err(InvalidHeader)
    ELSE [ok |-> TRUE,
          field |-> Some(time_of(LE_read_u32(SubSeq(val, 1, 4)),
                                 LE_read_u32(SubSeq(val, 5, 8))))]

(* `set_field_x(&mut self.f, val)?` : the header with f assigned, or the   *)
(* error.                                                                  *)
assign(self, f, r) ==
    IF r.ok THEN [ok |-> TRUE, hdr |-> [self EXCEPT ![f] = r.field]] ELSE r

(* `check(..)?` : the header unchanged, or the error.                      *)
keep(self, r) == IF r.ok THEN [ok |-> TRUE, hdr |-> self] ELSE r

(* A header parser that refuses a field it does not know.                  *)
unknown_field_refused(self) == Err(InvalidHeader)

unknown_field(self) == [ok |-> TRUE, hdr |-> self]

----------------------------------------------------------------------------
(* The header structs (#[derive(Default)]) and their process_field.        *)

IndexDataHeader == [ver |-> None, conn_id |-> None, count |-> None]

IndexDataHeader_process_field(self, name, val) ==
    CASE name = S_ver -> assign(self, "ver", set_field_u32(self.ver, val))
      [] name = S_conn -> assign(self, "conn_id", set_field_u32(self.conn_id, val))
      [] name = S_count -> assign(self, "count", set_field_u32(self.count, val))
      [] OTHER -> unknown_field(self)

ChunkInfoHeader ==
    [ver |-> None, chunk_pos |-> None, start_time |-> None, end_time |-> None,
     count |-> None]

ChunkInfoHeader_process_field(self, name, val) ==
    CASE name = S_ver -> assign(self, "ver", set_field_u32(self.ver, val))
      [] name = S_chunk_pos ->
            assign(self, "chunk_pos", set_field_u64(self.chunk_pos, val))
      [] name = S_start_time ->
            assign(self, "start_time", set_field_time(self.start_time, val))
      [] name = S_end_time ->
            assign(self, "end_time", set_field_time(self.end_time, val))
      [] name = S_count -> assign(self, "count", set_field_u32(self.count, val))
      [] OTHER -> unknown_field(self)

ChunkHeader == [compression |-> None, size |-> None]

ChunkHeader_process_field(self, name, val) ==
    CASE name = S_compression ->
            IF self.compression # None THEN Err(InvalidHeader)
            ELSE IF val = S_none
                 THEN [ok |-> TRUE, hdr |-> [self EXCEPT !.compression = Some("None")]]
            ELSE IF val = S_bz2
                 THEN [ok |-> TRUE, hdr |-> [self EXCEPT !.compression = Some("Bzip2")]]
            ELSE IF val = S_lz4
                 THEN [ok |-> TRUE, hdr |-> [self EXCEPT !.compression = Some("Lz4")]]
            ELSE Err(InvalidHeader)
      [] name = S_size -> assign(self, "size", set_field_u32(self.size, val))
      [] OTHER -> unknown_field(self)

MessageDataHeader == [conn_id |-> None, time |-> None]

MessageDataHeader_process_field(self, name, val) ==
    CASE name = S_conn -> assign(self, "conn_id", set_field_u32(self.conn_id, val))
      [] name = S_time -> assign(self, "time", set_field_time(self.time, val))
      [] OTHER -> unknown_field(self)

ConnectionHeader == [id |-> None, storage_topic |-> None]

ConnectionHeader_process_field(self, name, val) ==
    CASE name = S_conn -> assign(self, "id", set_field_u32(self.id, val))
      [] OTHER -> unknown_field(self)

RECURSIVE ConnectionHeader_read_header(_, _)
ConnectionHeader_read_header(header, rec) ==
    IF header = <<>> THEN [ok |-> TRUE, hdr |-> rec]
    ELSE Let(read_record(header), LAMBDA r :
             IF ~r.ok THEN r
             ELSE Let(CASE r.name = S_op -> keep(rec, check_op(r.val, Connection_OP))
                        [] r.name = S_topic ->
                             assign(rec, "storage_topic",
                                    set_field_str(rec.storage_topic, r.val))
                        [] OTHER -> ConnectionHeader_process_field(rec, r.name, r.val),
                      LAMBDA p :
                        IF p.ok THEN ConnectionHeader_read_header(r.rest, p.hdr) ELSE p))

(* record_types/mod.rs, HeaderGen: the opcode, the default header and the  *)
(* process_field of each variant, and the default read_header.             *)
HeaderGen_OP(kind) ==
    CASE kind = "MessageData" -> MessageData_OP
      [] kind = "IndexData" -> IndexData_OP
      [] kind = "Chunk" -> Chunk_OP
      [] kind = "ChunkInfo" -> ChunkInfo_OP
      [] kind = "Connection" -> Connection_OP

HeaderGen_default(kind) ==
    CASE kind = "MessageData" -> MessageDataHeader
      [] kind = "IndexData" -> IndexDataHeader
      [] kind = "Chunk" -> ChunkHeader
      [] kind = "ChunkInfo" -> ChunkInfoHeader
      [] kind = "Connection" -> ConnectionHeader

HeaderGen_process_field(kind, self, name, val) ==
    CASE kind = "MessageData" -> MessageDataHeader_process_field(self, name, val)
      [] kind = "IndexData" -> IndexDataHeader_process_field(self, name, val)
      [] kind = "Chunk" -> ChunkHeader_process_field(self, name, val)
      [] kind = "ChunkInfo" -> ChunkInfoHeader_process_field(self, name, val)
      [] kind = "Connection" -> ConnectionHeader_process_field(self, name, val)

RECURSIVE HeaderGen_read_header_default(_, _, _)
HeaderGen_read_header_default(kind, header, rec) ==
    IF header = <<>> THEN [ok |-> TRUE, hdr |-> rec]
    ELSE Let(read_record(header), LAMBDA r :
             IF ~r.ok THEN r
             ELSE Let(IF r.name = S_op THEN keep(rec, check_op(r.val, HeaderGen_OP(kind)))
                      ELSE HeaderGen_process_field(kind, rec, r.name, r.val),
                      LAMBDA p :
                        IF p.ok THEN HeaderGen_read_header_default(kind, r.rest, p.hdr)
                        ELSE p))

HeaderGen_read_header(kind, header) ==
    IF kind = "Connection"
    THEN ConnectionHeader_read_header(header, HeaderGen_default(kind))
    ELSE HeaderGen_read_header_default(kind, header, HeaderGen_default(kind))

----------------------------------------------------------------------------
(* record_types/*.rs: read_data of each variant.  `data`, `pos` are the    *)
(* cursor, positioned after the record's header; the result carries the    *)
(* cursor's new position.                                                  *)

(* read_data that slices the entries without moving the cursor over them.  *)
IndexData_read_data_no_advance(data, pos, header) ==
    IF header.ver = None THEN ErrAt(InvalidHeader, pos)
    ELSE IF header.conn_id = None THEN ErrAt(InvalidHeader, pos)
    ELSE IF header.count = None THEN ErrAt(InvalidHeader, pos)
    ELSE IF header.ver[1] # 1 THEN ErrAt(UnsupportedVersion, pos)
    ELSE Let(Cursor_next_u32(data, pos), LAMBDA n :
             IF ~n.ok THEN n
             ELSE IF n.val % 12 # 0 \/ n.val \div 12 # header.count[1]
                  THEN ErrAt(InvalidRecord, n.pos)
             ELSE Let(Cursor_next_bytes(data, n.pos, n.val), LAMBDA d :
                      IF ~d.ok THEN d
                      ELSE [ok |-> TRUE, pos |-> n.pos,
                            val |-> [kind |-> "IndexData", ver |-> header.ver[1],
                                     conn_id |-> header.conn_id[1], data |-> d.val]]))

(* read_data that compares only the entry count, not the remainder.        *)
IndexData_read_data_count_only(data, pos, header) ==
    IF header.ver = None THEN ErrAt(InvalidHeader, pos)
    ELSE IF header.conn_id = None THEN ErrAt(InvalidHeader, pos)
    ELSE IF header.count = None THEN ErrAt(InvalidHeader, pos)
    ELSE IF header.ver[1] # 1 THEN ErrAt(UnsupportedVersion, pos)
    ELSE Let(Cursor_next_u32(data, pos), LAMBDA n :
             IF ~n.ok THEN n
             ELSE IF n.val \div 12 # header.count[1] THEN ErrAt(InvalidRecord, n.pos)
             ELSE Let(Cursor_next_bytes(data, n.pos, n.val), LAMBDA d :
                      IF ~d.ok THEN d
                      ELSE [ok |-> TRUE, pos |-> d.pos,
                            val |-> [kind |-> "IndexData", ver |-> header.ver[1],
                                     conn_id |-> header.conn_id[1], data |-> d.val]]))

IndexData_read_data(data, pos, header) ==
    IF header.ver = None THEN ErrAt(InvalidHeader, pos)
    ELSE IF header.conn_id = None THEN ErrAt(InvalidHeader, pos)
    ELSE IF header.count = None THEN ErrAt(InvalidHeader, pos)
    ELSE LET ver == header.ver[1]
             conn_id == header.conn_id[1]
             count == header.count[1]
         IN  IF ver # 1 THEN ErrAt(UnsupportedVersion, pos)
             ELSE Let(Cursor_next_u32(data, pos), LAMBDA n :
                      IF ~n.ok THEN n
                      ELSE IF n.val % 12 # 0 \/ n.val \div 12 # count
                           THEN ErrAt(InvalidRecord, n.pos)
                      ELSE Let(Cursor_next_bytes(data, n.pos, n.val), LAMBDA d :
                               IF ~d.ok THEN d
                               ELSE [ok |-> TRUE, pos |-> d.pos,
                                     val |-> [kind |-> "IndexData", ver |-> ver,
                                              conn_id |-> conn_id, data |-> d.val]]))

(* read_data that takes any whole number of entries.                       *)
ChunkInfo_read_data_any_count(data, pos, header) ==
    IF header.ver = None THEN ErrAt(InvalidHeader, pos)
    ELSE IF header.chunk_pos = None THEN ErrAt(InvalidHeader, pos)
    ELSE IF header.start_time = None THEN ErrAt(InvalidHeader, pos)
    ELSE IF header.end_time = None THEN ErrAt(InvalidHeader, pos)
    ELSE IF header.count = None THEN ErrAt(InvalidHeader, pos)
    ELSE IF header.ver[1] # 1 THEN ErrAt(UnsupportedVersion, pos)
    ELSE Let(Cursor_next_u32(data, pos), LAMBDA n :
             IF ~n.ok THEN n
             ELSE IF n.val % 8 # 0 THEN ErrAt(InvalidRecord, n.pos)
             ELSE Let(Cursor_next_bytes(data, n.pos, n.val), LAMBDA d :
                      IF ~d.ok THEN d
                      ELSE [ok |-> TRUE, pos |-> d.pos,
                            val |-> [kind |-> "ChunkInfo", ver |-> header.ver[1],
                                     chunk_pos |-> header.chunk_pos[1],
                                     start_time |-> header.start_time[1],
                                     end_time |-> header.end_time[1],
                                     data |-> d.val]]))

(* read_data that checks the data length before the version.               *)
ChunkInfo_read_data_length_first(data, pos, header) ==
    IF header.ver = None THEN ErrAt(InvalidHeader, pos)
    ELSE IF header.chunk_pos = None THEN ErrAt(InvalidHeader, pos)
    ELSE IF header.start_time = None THEN ErrAt(InvalidHeader, pos)
    ELSE IF header.end_time = None THEN ErrAt(InvalidHeader, pos)
    ELSE IF header.count = None THEN ErrAt(InvalidHeader, pos)
    ELSE Let(Cursor_next_u32(data, pos), LAMBDA n :
             IF ~n.ok THEN n
             ELSE IF n.val % 8 # 0 \/ n.val \div 8 # header.count[1]
                  THEN ErrAt(InvalidRecord, n.pos)
             ELSE IF header.ver[1] # 1 THEN ErrAt(UnsupportedVersion, n.pos)
             ELSE Let(Cursor_next_bytes(data, n.pos, n.val), LAMBDA d :
                      IF ~d.ok THEN d
                      ELSE [ok |-> TRUE, pos |-> d.pos,
                            val |-> [kind |-> "ChunkInfo", ver |-> header.ver[1],
                                     chunk_pos |-> header.chunk_pos[1],
                                     start_time |-> header.start_time[1],
                                     end_time |-> header.end_time[1],
                                     data |-> d.val]]))

ChunkInfo_read_data(data, pos, header) ==
    IF header.ver = None THEN ErrAt(InvalidHeader, pos)
    ELSE IF header.chunk_pos = None THEN ErrAt(InvalidHeader, pos)
    ELSE IF header.start_time = None THEN ErrAt(InvalidHeader, pos)
    ELSE IF header.end_time = None THEN ErrAt(InvalidHeader, pos)
    ELSE IF header.count = None THEN ErrAt(InvalidHeader, pos)
    ELSE LET ver == header.ver[1]
             count == header.count[1]
         IN  IF ver # 1 THEN ErrAt(UnsupportedVersion, pos)
             ELSE Let(Cursor_next_u32(data, pos), LAMBDA n :
                      IF ~n.ok THEN n
                      ELSE IF n.val % 8 # 0 \/ n.val \div 8 # count
                           THEN ErrAt(InvalidRecord, n.pos)
                      ELSE Let(Cursor_next_bytes(data, n.pos, n.val), LAMBDA d :
                               IF ~d.ok THEN d
                               ELSE [ok |-> TRUE, pos |-> d.pos,
                                     val |-> [kind |-> "ChunkInfo", ver |-> ver,
                                              chunk_pos |-> header.chunk_pos[1],
                                              start_time |-> header.start_time[1],
                                              end_time |-> header.end_time[1],
                                              data |-> d.val]]))

(* IndexData::entries / ChunkInfo::entries: a cursor over a clone of the   *)
(* record's data.                                                          *)
IndexData_entries(self) == [kind |-> "IndexData", data |-> self.data, pos |-> 0]

ChunkInfo_entries(self) == [kind |-> "ChunkInfo", data |-> self.data, pos |-> 0]

(* The entries iterators' next(): None at the end of the data, a panic on  *)
(* a remainder shorter than an entry (and if a read that was "already      *)
(* checked" failed), else the next entry.                                  *)
IndexDataEntriesIterator_next(data, pos) ==
    IF Cursor_left(data, pos) = 0 THEN [panic |-> FALSE, item |-> None, pos |-> pos]
    ELSE IF Cursor_left(data, pos) < 12 THEN [panic |-> TRUE, item |-> None, pos |-> pos]
    ELSE Let(Cursor_next_time(data, pos), LAMBDA time :
             IF ~time.ok THEN [panic |-> TRUE, item |-> None, pos |-> time.pos]
             ELSE Let(Cursor_next_u32(data, time.pos), LAMBDA offset :
                      IF ~offset.ok THEN [panic |-> TRUE, item |-> None, pos |-> offset.pos]
                      ELSE [panic |-> FALSE, pos |-> offset.pos,
                            item |-> Some([time |-> time.val, offset |-> offset.val])]))

ChunkInfoEntriesIterator_next(data, pos) ==
    IF Cursor_left(data, pos) = 0 THEN [panic |-> FALSE, item |-> None, pos |-> pos]
    ELSE IF Cursor_left(data, pos) < 8 THEN [panic |-> TRUE, item |-> None, pos |-> pos]
    ELSE Let(Cursor_next_u32(data, pos), LAMBDA conn_id :
             IF ~conn_id.ok THEN [panic |-> TRUE, item |-> None, pos |-> conn_id.pos]
             ELSE Let(Cursor_next_u32(data, conn_id.pos), LAMBDA count :
                      IF ~count.ok THEN [panic |-> TRUE, item |-> None, pos |-> count.pos]
                      ELSE [panic |-> FALSE, pos |-> count.pos,
                            item |-> Some([conn_id |-> conn_id.val, count |-> count.val])]))

EntriesIterator_next(self) ==
    CASE self.kind = "IndexData" -> IndexDataEntriesIterator_next(self.data, self.pos)
      [] self.kind = "ChunkInfo" -> ChunkInfoEntriesIterator_next(self.data, self.pos)

MessageData_read_data(data, pos, header) ==
    IF header.conn_id = None THEN ErrAt(InvalidHeader, pos)
    ELSE IF header.time = None THEN ErrAt(InvalidHeader, pos)
    ELSE Let(Cursor_next_chunk(data, pos), LAMBDA d :
             IF ~d.ok THEN d
             ELSE [ok |-> TRUE, pos |-> d.pos,
                   val |-> [kind |-> "MessageData", conn_id |-> header.conn_id[1],
                            time |-> header.time[1], data |-> d.val]])

(* The bzip2 and lz4 decoders are external libraries: what one returns for *)
(* an input (the compression, the compressed bytes, the size hint) is      *)
(* `codec` of that input once it has been asked, and `o` the first time.   *)
(* A decoder outcome is [ok |-> FALSE] or [ok |-> TRUE, out |-> bytes].    *)
decoder_key(self, data, decompressed_size) == <<self, data, decompressed_size>>

decoder(self, data, decompressed_size, o) ==
    LET key == decoder_key(self, data, decompressed_size)
    IN  IF key \in DOMAIN codec THEN codec[key] ELSE o

Compression_decompress(self, data, decompressed_size, o) ==
    CASE self = "Bzip2" ->
            Let(decoder(self, data, decompressed_size, o), LAMBDA d :
                IF d.ok THEN [ok |-> TRUE, val |-> d.out]
                ELSE Err(Bzip2DecompressionError))
      [] self = "Lz4" ->
            Let(decoder(self, data, decompressed_size, o), LAMBDA d :
                IF d.ok THEN [ok |-> TRUE, val |-> d.out]
                ELSE Err(Lz4DecompressionError))
      [] self = "None" -> [ok |-> TRUE, val |-> data]

(* read_data that takes the decompressed buffer whatever its length.       *)
Chunk_read_data_any_length(data, pos, header, o) ==
    IF header.compression = None THEN ErrAt(InvalidHeader, pos)
    ELSE IF header.size = None THEN ErrAt(InvalidHeader, pos)
    ELSE Let(Cursor_next_chunk(data, pos), LAMBDA c :
         IF ~c.ok THEN c
         ELSE Let(Compression_decompress(header.compression[1], c.val, header.size, o),
                  LAMBDA d :
                  Let(IF header.compression[1] = "None" THEN None
                      ELSE Some(decoder_key(header.compression[1], c.val, header.size)),
                      LAMBDA asked :
                      IF ~d.ok
                      THEN [ok |-> FALSE, err |-> d.err, pos |-> c.pos, asked |-> asked]
                      ELSE [ok |-> TRUE, pos |-> c.pos, asked |-> asked,
                            val |-> [kind |-> "Chunk",
                                     compression |-> header.compression[1],
                                     data |-> d.val]])))

(* `asked` is the decoder input of this call, None when no decoder ran.    *)
Chunk_read_data(data, pos, header, o) ==
    IF header.compression = None THEN ErrAt(InvalidHeader, pos)
    ELSE IF header.size = None THEN ErrAt(InvalidHeader, pos)
    ELSE LET compression == header.compression[1]
             size == header.size[1]
         IN  Let(Cursor_next_chunk(data, pos), LAMBDA c :
             IF ~c.ok THEN c
             ELSE Let(Compression_decompress(compression, c.val, header.size, o), LAMBDA d :
                  Let(IF compression = "None" THEN None
                      ELSE Some(decoder_key(compression, c.val, header.size)), LAMBDA asked :
                      IF ~d.ok
                      THEN [ok |-> FALSE, err |-> d.err, pos |-> c.pos, asked |-> asked]
                      ELSE IF Len(d.val) # size
                      THEN [ok |-> FALSE, err |-> InvalidRecord, pos |-> c.pos,
                            asked |-> asked]
                      ELSE [ok |-> TRUE, pos |-> c.pos, asked |-> asked,
                            val |-> [kind |-> "Chunk", compression |-> compression,
                                     data |-> d.val]])))

(* base16ct::lower::decode of the 32 characters of an md5sum.              *)
hex_lower(c) ==
    IF c >= 48 /\ c <= 57 THEN c - 48
    ELSE IF c >= 97 /\ c <= 102 THEN c - 87
    ELSE -1

base16_lower_decode(val) ==
    IF \E i \in 1..Len(val) : hex_lower(val[i]) < 0 THEN Err(InvalidRecord)
    ELSE [ok |-> TRUE,
          field |-> Some([i \in 1..(Len(val) \div 2) |->
                            16 * hex_lower(val[2 * i - 1]) + hex_lower(val[2 * i])])]

(* The loop of Connection::read_data over the secondary header.           *)
ConnectionFields ==
    [topic |-> None, tp |-> None, md5sum |-> None, message_definition |-> None,
     caller_id |-> None, latching |-> FALSE]

RECURSIVE Connection_read_fields(_, _)
Connection_read_fields(buf, acc) ==
    IF buf = <<>> THEN [ok |-> TRUE, hdr |-> acc]
    ELSE Let(read_record(buf), LAMBDA r :
             IF ~r.ok THEN r
             ELSE Let(
                    CASE r.name = S_topic ->
                            assign(acc, "topic", set_field_str(acc.topic, r.val))
                      [] r.name = S_type ->
                            assign(acc, "tp", set_field_str(acc.tp, r.val))
                      [] r.name = S_md5sum ->
                            IF acc.md5sum # None \/ Len(r.val) # 32
                            THEN Err(InvalidRecord)
                            ELSE assign(acc, "md5sum", base16_lower_decode(r.val))
                      [] r.name = S_message_definition ->
                            assign(acc, "message_definition",
                                   set_field_str(acc.message_definition, r.val))
                      [] r.name = S_callerid ->
                            assign(acc, "caller_id", set_field_str(acc.caller_id, r.val))
                      [] r.name = S_latching ->
                            IF r.val # <<>> /\ r.val[1] = 49
                            THEN [ok |-> TRUE, hdr |-> [acc EXCEPT !.latching = TRUE]]
                            ELSE IF r.val # <<>> /\ r.val[1] = 48
                            THEN [ok |-> TRUE, hdr |-> [acc EXCEPT !.latching = FALSE]]
                            ELSE Err(InvalidRecord)
                      [] OTHER -> [ok |-> TRUE, hdr |-> acc],
                    LAMBDA p :
                      IF p.ok THEN Connection_read_fields(r.rest, p.hdr) ELSE p))

Connection_read_data(data, pos, header) ==
    IF header.id = None THEN ErrAt(InvalidHeader, pos)
    ELSE IF header.storage_topic = None THEN ErrAt(InvalidHeader, pos)
    ELSE Let(Cursor_next_chunk(data, pos), LAMBDA buf :
             IF ~buf.ok THEN buf
             ELSE Let(Connection_read_fields(buf.val, ConnectionFields), LAMBDA f :
                      IF ~f.ok THEN ErrAt(f.err, buf.pos)
                      ELSE IF f.hdr.topic = None THEN ErrAt(InvalidHeader, buf.pos)
                      ELSE IF f.hdr.tp = None THEN ErrAt(InvalidHeader, buf.pos)
                      ELSE IF f.hdr.md5sum = None THEN ErrAt(InvalidHeader, buf.pos)
                      ELSE IF f.hdr.message_definition = None
                           THEN ErrAt(InvalidHeader, buf.pos)
                      ELSE [ok |-> TRUE, pos |-> buf.pos,
                            val |-> [kind |-> "Connection",
                                     id |-> header.id[1],
                                     storage_topic |-> header.storage_topic[1],
                                     topic |-> f.hdr.topic[1],
                                     tp |-> f.hdr.tp[1],
                                     md5sum |-> f.hdr.md5sum[1],
                                     message_definition |-> f.hdr.message_definition[1],
                                     caller_id |-> IF f.hdr.caller_id = None THEN <<>>
                                                   ELSE f.hdr.caller_id[1],
                                     latching |-> f.hdr.latching]]))

(* record_types/mod.rs, RecordGen::read: read_header, then read_data.      *)
RecordGen_read_data(kind, data, pos, header, o) ==
    CASE kind = "MessageData" -> MessageData_read_data(data, pos, header)
      [] kind = "IndexData" -> IndexData_read_data(data, pos, header)
      [] kind = "Chunk" -> Chunk_read_data(data, pos, header, o)
      [] kind = "ChunkInfo" -> ChunkInfo_read_data(data, pos, header)
      [] kind = "Connection" -> Connection_read_data(data, pos, header)

RecordGen_read(kind, header, data, pos, o) ==
    Let(HeaderGen_read_header(kind, header), LAMBDA h :
        IF ~h.ok THEN ErrAt(h.err, pos)
        ELSE RecordGen_read_data(kind, data, pos, h.hdr, o))

----------------------------------------------------------------------------
(* record.rs                                                               *)

(* The loop ending in a header error when it met no `op` field.            *)
RECURSIVE find_op_required(_)
find_op_required(buf) ==
    IF buf = <<>> THEN Err(InvalidHeader)
    ELSE Let(read_record(buf), LAMBDA r :
             IF ~r.ok THEN r
             ELSE IF r.name = S_op
                  THEN IF Len(r.val) = 1 THEN [ok |-> TRUE, op |-> Some(r.val[1])]
                       ELSE Err(InvalidRecord)
             ELSE find_op_required(r.rest))

(* The loop of Record::next_record that looks for the `op` field.          *)
RECURSIVE find_op(_)
find_op(buf) ==
    IF buf = <<>> THEN [ok |-> TRUE, op |-> None]
    ELSE Let(read_record(buf), LAMBDA r :
             IF ~r.ok THEN r
             ELSE IF r.name = S_op
                  THEN IF Len(r.val) = 1 THEN [ok |-> TRUE, op |-> Some(r.val[1])]
                       ELSE Err(InvalidRecord)
             ELSE find_op(r.rest))

(* The variant an op byte dispatches to, None when it dispatches to none.  *)
op_variant(op) ==
    IF op = Some(IndexData_OP) THEN Some("IndexData")
    ELSE IF op = Some(Chunk_OP) THEN Some("Chunk")
    ELSE IF op = Some(ChunkInfo_OP) THEN Some("ChunkInfo")
    ELSE IF op = Some(Connection_OP) THEN Some("Connection")
    ELSE IF op = Some(MessageData_OP) THEN Some("MessageData")
    ELSE None

Record_next_record(data, pos, o) ==
    Let(pos, LAMBDA header_pos :
    Let(Cursor_next_u32(data, pos), LAMBDA header_len_entry :
        IF ~header_len_entry.ok THEN header_len_entry
        ELSE Let(Cursor_seek(data, header_len_entry.pos, header_pos), LAMBDA sk :
             IF ~sk.ok THEN sk
             ELSE Let(Cursor_next_chunk(data, sk.pos), LAMBDA header :
                  IF ~header.ok THEN header
                  ELSE Let(find_op(header.val), LAMBDA op :
                       IF ~op.ok THEN ErrAt(op.err, header.pos)
                       ELSE IF op_variant(op.op) = None
                            THEN ErrAt(InvalidRecord, header.pos)
                       ELSE RecordGen_read(op_variant(op.op)[1], header.val,
                                           data, header.pos, o))))))

Record_get_type(rec) == rec.kind

----------------------------------------------------------------------------
(* The storage object (object_store) behind ObjectCursor.  A bag file is   *)
(* `head`, then `pad` space bytes (the padding of the bag header record),  *)
(* then `body`: store_byte gives the byte at an offset of the file.        *)

store_len(obj) == Len(obj.head) + obj.pad + Len(obj.body)

store_byte(obj, off) ==
    IF off < Len(obj.head) THEN obj.head[off + 1]
    ELSE IF off < Len(obj.head) + obj.pad THEN 32
    ELSE obj.body[off - Len(obj.head) - obj.pad + 1]

(* ObjectStore::get_range(location, from..to): the bytes of the range, an  *)
(* error for a range that is not inside the object.                        *)
StoreError == <<"object_store::Error">>

get_range(obj, from, to) ==
    IF from > to \/ to > store_len(obj) THEN Err(StoreError)
    ELSE [ok |-> TRUE, val |-> [k \in 1..(to - from) |-> store_byte(obj, from + k - 1)]]

(* cursor.rs: ObjectCursor                                                 *)
ObjectCursor_len(obj) == store_len(obj)

ObjectCursor_read_bytes(obj, pos, n) ==
    IF pos + n > ObjectCursor_len(obj) THEN Err(OutOfBounds)
    ELSE get_range(obj, pos, pos + n)

ObjectCursor_read_u32(obj, pos) ==
    Let(get_range(obj, pos, pos + 4), LAMBDA r :
        IF r.ok THEN [ok |-> TRUE, val |-> LE_read_u32(r.val)] ELSE r)

ObjectCursor_read_chunk(obj, pos) ==
    Let(ObjectCursor_read_u32(obj, pos), LAMBDA n :
        IF n.ok THEN ObjectCursor_read_bytes(obj, pos + 4, n.val) ELSE n)

----------------------------------------------------------------------------
(* lib.rs: the bag opener.                                                 *)

BagHeaderFields ==
    [index_pos |-> None, conn_count |-> None, chunk_count |-> None, op |-> FALSE]

(* The loop of parse_bag_header over the fields of the bag header.         *)
RECURSIVE parse_bag_header_fields(_, _)
parse_bag_header_fields(buf, acc) ==
    IF buf = <<>> THEN [ok |-> TRUE, hdr |-> acc]
    ELSE Let(read_record(buf), LAMBDA r :
             IF ~r.ok THEN r
             ELSE Let(
                    CASE r.name = S_op ->
                            keep([acc EXCEPT !.op = TRUE], check_op(r.val, ROSBAG_HEADER_OP))
                      [] r.name = S_index_pos ->
                            assign(acc, "index_pos", set_field_u64(acc.index_pos, r.val))
                      [] r.name = S_conn_count ->
                            assign(acc, "conn_count", set_field_u32(acc.conn_count, r.val))
                      [] r.name = S_chunk_count ->
                            assign(acc, "chunk_count",
                                   set_field_u32(acc.chunk_count, r.val))
                      [] OTHER -> [ok |-> TRUE, hdr |-> acc],
                    LAMBDA p :
                      IF p.ok THEN parse_bag_header_fields(r.rest, p.hdr) ELSE p))

(* The start of the chunk section taken from the lengths that were read.   *)
bag_start_pos_of_lengths(header_len, data_len) ==
    VERSION_LEN + 4 + header_len + 4 + data_len

bag_start_pos(header_len, data_len) == VERSION_LEN + ROSBAG_HEADER_SIZE

parse_bag_header(obj) ==
    Let(ObjectCursor_read_bytes(obj, 0, VERSION_LEN), LAMBDA bytes :
        IF ~bytes.ok THEN bytes
        ELSE IF bytes.val # VERSION_STRING THEN Err(InvalidHeader)
        ELSE Let(ObjectCursor_read_chunk(obj, VERSION_LEN), LAMBDA header :
             IF ~header.ok THEN header
             ELSE Let(Len(header.val), LAMBDA header_len :
                  Let(parse_bag_header_fields(header.val, BagHeaderFields), LAMBDA f :
                      IF ~f.ok THEN f
                      ELSE IF \/ f.hdr.index_pos = None
                              \/ f.hdr.conn_count = None
                              \/ f.hdr.chunk_count = None
                              \/ ~f.hdr.op
                           THEN Err(InvalidHeader)
                      ELSE Let(ObjectCursor_read_u32(obj, VERSION_LEN + header_len + 4),
                               LAMBDA data_len :
                                 IF ~data_len.ok THEN data_len
                                 ELSE [ok |-> TRUE,
                                       start_pos |-> bag_start_pos(header_len, data_len.val),
                                       bag_header |->
                                          [index_pos |-> f.hdr.index_pos[1],
                                           conn_count |-> f.hdr.conn_count[1],
                                           chunk_count |-> f.hdr.chunk_count[1]]])))))

(* RosBag::new: every error of parse_bag_header becomes the io::Error      *)
(* "Invalid or unsupported rosbag header".                                 *)
RosBag_new(obj) ==
    Let(parse_bag_header(obj), LAMBDA r :
        IF ~r.ok THEN [st |-> "failed"]
        ELSE [st |-> "open",
              start_pos |-> r.start_pos,
              conn_count |-> r.bag_header.conn_count,
              index_pos |-> r.bag_header.index_pos,
              chunk_count |-> r.bag_header.chunk_count])

RosBag_get_conn_count(self) == self.conn_count

RosBag_get_chunk_count(self) == self.chunk_count

NoIterator == [kind |-> "none", data |-> <<>>, pos |-> 0, offset |-> 0]

(* chunk_records and index_records unwrap the range read.  A length that   *)
(* would be negative overflows usize: a debug build panics at the          *)
(* subtraction; a release build wraps it, pos + n wraps back to the end of *)
(* the range, and the read of a range that ends before it starts fails, so *)
(* the unwrap panics.  [panic |-> TRUE] is that abort.                     *)
RosBag_section(obj, from, to, kind) ==
    IF to < from THEN [panic |-> TRUE]
    ELSE Let(ObjectCursor_read_bytes(obj, from, to - from), LAMBDA r :
             IF ~r.ok THEN [panic |-> TRUE]
             ELSE [panic |-> FALSE,
                   iter |-> [kind |-> kind, data |-> r.val, pos |-> 0, offset |-> from]])

(* chunk_records that reads from the bag header record on.                 *)
RosBag_chunk_records_from_header(self, obj) ==
    RosBag_section(obj, VERSION_LEN, self.index_pos, "chunk")

RosBag_chunk_records(self, obj) ==
    RosBag_section(obj, self.start_pos, self.index_pos, "chunk")

RosBag_index_records(self, obj) ==
    RosBag_section(obj, self.index_pos, ObjectCursor_len(obj), "index")

(* Chunk::messages / MessageRecordsIterator::new                           *)
Chunk_messages(chunk) ==
    [kind |-> "msg", data |-> chunk.data, pos |-> 0, offset |-> 0]

----------------------------------------------------------------------------
(* chunk_iter.rs, index_iter.rs, msg_iter.rs                               *)

ChunkSection_allowed_with_ChunkInfo == {"Chunk", "IndexData", "ChunkInfo"}
ChunkSection_allowed == {"Chunk", "IndexData"}
IndexSection_allowed == {"IndexData", "Connection", "ChunkInfo"}
Message_allowed == {"MessageData", "Connection"}

(* The match of each iterator's next() on the result of next_record.       *)
filter_record(r, allowed, unexpected) ==
    IF r.ok
    THEN IF r.val.kind \in allowed THEN [ok |-> TRUE, val |-> r.val]
         ELSE Err(<<unexpected, Record_get_type(r.val)>>)
    ELSE Err(r.err)

ChunkRecordsIterator_next(data, pos, o) ==
    IF Cursor_left(data, pos) = 0 THEN [item |-> None, pos |-> pos]
    ELSE Let(Record_next_record(data, pos, o), LAMBDA r :
             [item |-> Some(filter_record(r, ChunkSection_allowed, "UnexpectedChunkSectionRecord")), pos |-> r.pos, rec |-> r])

IndexRecordsIterator_next(data, pos, o) ==
    IF Cursor_left(data, pos) = 0 THEN [item |-> None, pos |-> pos]
    ELSE Let(Record_next_record(data, pos, o), LAMBDA r :
             [item |-> Some(filter_record(r, IndexSection_allowed, "UnexpectedIndexSectionRecord")), pos |-> r.pos, rec |-> r])

MessageRecordsIterator_next(data, pos, o) ==
    IF Cursor_left(data, pos) = 0 THEN [item |-> None, pos |-> pos]
    ELSE Let(Record_next_record(data, pos, o), LAMBDA r :
             [item |-> Some(filter_record(r, Message_allowed, "UnexpectedMessageRecord")), pos |-> r.pos, rec |-> r])

ChunkRecordsIterator_seek(self, pos) ==
    IF pos < self.offset THEN ErrAt(OutOfBounds, self.pos)
    ELSE Cursor_seek(self.data, self.pos, pos - self.offset)

IndexRecordsIterator_seek(self, pos) ==
    IF pos < self.offset THEN ErrAt(OutOfBounds, self.pos)
    ELSE Cursor_seek(self.data, self.pos, pos - self.offset)

MessageRecordsIterator_seek(self, offset) ==
    Cursor_seek(self.data, self.pos, offset)

(* An iterator that is exhausted for good once it has returned an error.   *)
Iterator_next_fused(self, o) ==
    IF erred THEN [item |-> None, pos |-> self.pos]
    ELSE CASE self.kind = "chunk" -> ChunkRecordsIterator_next(self.data, self.pos, o)
           [] self.kind = "index" -> IndexRecordsIterator_next(self.data, self.pos, o)
           [] self.kind = "msg" -> MessageRecordsIterator_next(self.data, self.pos, o)

Iterator_next(self, o) ==
    CASE self.kind = "chunk" -> ChunkRecordsIterator_next(self.data, self.pos, o)
      [] self.kind = "index" -> IndexRecordsIterator_next(self.data, self.pos, o)
      [] self.kind = "msg" -> MessageRecordsIterator_next(self.data, self.pos, o)

Iterator_seek(self, pos) ==
    CASE self.kind = "chunk" -> ChunkRecordsIterator_seek(self, pos)
      [] self.kind = "index" -> IndexRecordsIterator_seek(self, pos)
      [] self.kind = "msg" -> MessageRecordsIterator_seek(self, pos)

----------------------------------------------------------------------------
(* Inputs: bag files written in the format the parser reads.  Every byte   *)
(* of a section is below 128, so that four bytes read as a little-endian   *)
(* u32 at any position stay below 2^31.                                    *)

MaxEntries == 2     \* entry counts of the IndexData / ChunkInfo inputs: 0..MaxEntries
SeekMargin == 4     \* seeks land up to SeekMargin bytes off a record boundary

U32(n) == <<n % 256, (n \div 256) % 256, (n \div 65536) % 256, (n \div 16777216) % 256>>
U64(n) == U32(n) \o <<0, 0, 0, 0>>

RECURSIVE Cat(_)
Cat(ss) == IF ss = <<>> THEN <<>> ELSE Head(ss) \o Cat(Tail(ss))

Fill(n) == [i \in 1..n |-> i % 5]

Field(name, val) == U32(Len(name) + 1 + Len(val)) \o name \o <<61>> \o val
OpField(op) == Field(S_op, <<op>>)

(* A record: header and data, each behind its length; FrameDeclared        *)
(* declares a data length that need not be the length of the data.         *)
FrameDeclared(header, n, data) == U32(Len(header)) \o header \o U32(n) \o data
Frame(header, data) == FrameDeclared(header, Len(data), data)

IndexDataFields(ver, conn, count) ==
    <<OpField(IndexData_OP), Field(S_ver, U32(ver)), Field(S_conn, U32(conn)),
      Field(S_count, U32(count))>>
IndexDataRec(ver, conn, count, n) == Frame(Cat(IndexDataFields(ver, conn, count)), Fill(n))

ChunkInfoFields(ver, count) ==
    <<OpField(ChunkInfo_OP), Field(S_ver, U32(ver)),
      Field(S_chunk_pos, U64(VERSION_LEN + ROSBAG_HEADER_SIZE)),
      Field(S_start_time, U32(1) \o U32(5)),
      Field(S_end_time, U32(2) \o U32(0)), Field(S_count, U32(count))>>
ChunkInfoRec(ver, count, n) == Frame(Cat(ChunkInfoFields(ver, count)), Fill(n))

(* The fields of a record with the k-th left out.                          *)
Without(fields, k) == Cat([i \in 1..(Len(fields) - 1) |->
                             IF i < k THEN fields[i] ELSE fields[i + 1]])

(* The fields of a record with field f put in as its k-th.                 *)
With(fields, k, f) ==
    Cat(SubSeq(fields, 1, k - 1) \o <<f>> \o SubSeq(fields, k, Len(fields)))

(* Fields of names no record knows: "x" with a value and "v" without one.  *)
UnknownX == Field(<<120>>, <<1>>)
UnknownV == Field(<<118>>, <<>>)

MessageDataFields(conn) ==
    <<OpField(MessageData_OP), Field(S_conn, U32(conn)),
      Field(S_time, U32(1) \o U32(100))>>
MessageDataRec(conn, data) == Frame(Cat(MessageDataFields(conn)), data)

Md5Hex == [i \in 1..32 |-> IF i % 2 = 0 THEN 97 + (i % 6) ELSE 48 + (i % 10)]

ConnectionFields1(conn) ==
    <<OpField(Connection_OP), Field(S_conn, U32(conn)), Field(S_topic, <<47, 97>>)>>
ConnectionFields2(extra) ==
    <<Field(S_topic, <<47>>), Field(S_type, <<>>), Field(S_md5sum, Md5Hex),
      Field(S_message_definition, <<>>)>> \o extra
ConnectionRec(conn, extra) ==
    Frame(Cat(ConnectionFields1(conn)), Cat(ConnectionFields2(extra)))

ChunkFields(compression, size) ==
    <<OpField(Chunk_OP), Field(S_compression, compression), Field(S_size, U32(size))>>
ChunkRec(compression, size, data) == Frame(Cat(ChunkFields(compression, size)), data)

Msg1 == MessageDataRec(7, <<42, 0, 0, 0>>)
Msg2 == MessageDataRec(7, <<>>)
Conn7 == ConnectionRec(7, <<>>)
MsgX == Frame(With(MessageDataFields(7), 2, UnknownX), <<42>>)
MsgV == Frame(With(MessageDataFields(7), 4, UnknownV), <<42>>)
Blob == <<66, 90, 104>>

(* What the external decoders may return for a compressed chunk.           *)
DecoderOutcomes ==
    {[ok |-> FALSE], [ok |-> TRUE, out |-> <<>>], [ok |-> TRUE, out |-> Msg1],
     [ok |-> TRUE, out |-> SubSeq(Msg1, 1, Len(Msg1) - 1)]}

(* The data lengths tried against an entry count: the right one, one that *)
(* is no multiple of the entry size, and the one of one entry more.        *)
DataLens(entry, count) == <<entry * count, entry * count + 4, entry * (count + 1)>>

(* Sections, short enough to seek to every position of each: well-formed   *)
(* ones, and ones with records that are of the wrong section, of an        *)
(* unsupported version, or malformed.                                      *)
GridSections ==
    [i \in 1..(3 * (MaxEntries + 1)) |->
        <<IndexDataRec(1, 1, (i - 1) \div 3, DataLens(12, (i - 1) \div 3)[((i - 1) % 3) + 1]),
          ChunkInfoRec(1, (i - 1) \div 3, DataLens(8, (i - 1) \div 3)[((i - 1) % 3) + 1])>>]

EmptyChunk == ChunkRec(S_none, 0, <<>>)

OtherSections ==
    << <<ChunkRec(S_none, Len(Msg1) + Len(Msg2), Msg1 \o Msg2) \o IndexDataRec(1, 7, 2, 24),
         Conn7>>,
       <<ChunkRec(S_none, Len(Conn7), Conn7) \o EmptyChunk,
         ChunkInfoRec(1, 1, 8) \o IndexDataRec(1, 7, 1, 12)>>,
       <<ChunkInfoRec(1, 1, 8) \o Msg1, EmptyChunk \o Msg1>>,
       <<Conn7, ConnectionRec(8, <<Field(S_callerid, <<110>>), Field(S_latching, <<49>>)>>)>>,
       <<Frame(OpField(ROSBAG_HEADER_OP), <<>>) \o Frame(Field(S_ver, U32(1)), <<>>)
           \o Frame(Field(S_op, <<4, 4>>), <<>>) \o Frame(<<>>, <<>>),
         Frame(<<5, 0, 0, 0, 111, 112>>, <<>>) \o Frame(U32(3) \o <<111, 112, 4>>, <<>>)
           \o Frame(Field(S_ver, <<1>>) \o Field(S_op, <<>>), <<>>)
           \o Frame(OpField(IndexData_OP) \o Field(S_ver, <<1>>) \o Field(S_op, <<4, 4>>),
                    <<>>)>>,
       <<ChunkRec(S_none, 3, <<1, 2>>) \o Frame(Without(ChunkFields(S_none, 0), 3), <<>>)
           \o Frame(Without(ChunkFields(S_none, 0), 2), <<>>),
         ChunkRec(<<122, 105, 112>>, 0, <<>>)
           \o ChunkRec(S_none, Len(Msg1), IndexDataRec(1, 7, 0, 0))>>,
       <<ChunkRec(S_bz2, Len(Msg1), Blob) \o ChunkRec(S_lz4, 0, Blob), <<>> >>,
       <<ChunkRec(S_none, Len(IndexDataRec(1, 7, 0, 0)) + Len(EmptyChunk),
                  IndexDataRec(1, 7, 0, 0) \o EmptyChunk),
         ChunkRec(S_none, Len(Msg1) - 2, SubSeq(Msg1, 1, Len(Msg1) - 2))>>,
       <<ChunkRec(S_none, Len(ChunkInfoRec(1, 1, 8)), ChunkInfoRec(1, 1, 8)),
         IndexDataRec(1, 1, 3, 32) \o IndexDataRec(2, 1, 1, 12) \o IndexDataRec(2, 1, 1, 4)>>,
       <<ChunkInfoRec(2, 1, 8) \o ChunkInfoRec(0, 1, 4),
         Cat([k \in 1..3 |-> Frame(Without(IndexDataFields(1, 1, 0), k + 1), <<>>)])>>,
       <<Cat([k \in 1..3 |-> Frame(Without(IndexDataFields(2, 1, 0), k + 1), <<>>)]),
         Cat([k \in 1..2 |-> Frame(Without(ChunkInfoFields(2, 0), k + 1), <<>>)])>>,
       <<Cat([k \in 1..2 |-> Frame(Without(ChunkInfoFields(1, 0), k + 3), <<>>)]),
         Frame(Without(ChunkInfoFields(2, 0), 6), <<>>)
           \o FrameDeclared(Cat(IndexDataFields(1, 1, 1)), 12, <<1, 2, 3>>)>>,
       << <<>>, ChunkInfoRec(1, 0, 0)>>,
       <<Frame(With(ChunkFields(S_none, Len(MsgX)), 1, UnknownX), MsgX)
           \o Frame(With(IndexDataFields(1, 7, 1), 5, UnknownX), Fill(12)),
         Frame(With(ConnectionFields1(7), 1, UnknownX), Cat(ConnectionFields2(<<UnknownX>>)))
           \o Frame(With(ChunkInfoFields(1, 1), 3, UnknownX), Fill(8))>>,
       <<Frame(With(ChunkFields(S_none, Len(MsgV)), 4, UnknownV), MsgV)
           \o Frame(With(IndexDataFields(1, 7, 1), 2, UnknownV), Fill(12)),
         Frame(With(ConnectionFields1(7), 4, UnknownV),
               Cat(<<UnknownV>> \o ConnectionFields2(<<>>)))
           \o Frame(With(ChunkInfoFields(1, 1), 1, UnknownV), Fill(8))>>,
       <<EmptyChunk,
         ConnectionRec(8, <<Field(S_latching, <<49, 48>>)>>)
           \o ConnectionRec(8, <<Field(S_latching, <<>>)>>)
           \o ConnectionRec(8, <<Field(S_latching, <<120>>)>>)>>,
       <<EmptyChunk,
         ConnectionRec(8, <<Field(S_latching, <<48>>), Field(S_callerid, <<>>)>>)
           \o ConnectionRec(8, <<Field(S_latching, <<48, 49>>)>>)
           \o ConnectionRec(8, <<Field(S_latching, <<50>>), Field(S_topic, <<47>>)>>)>> >>

Sections == GridSections \o OtherSections

(* Bag files.  The bag header record is padded with spaces up to `region`  *)
(* bytes of file (magic included); the sections follow.                    *)
StdFields(index_pos, conn_count, chunk_count) ==
    <<OpField(ROSBAG_HEADER_OP), Field(S_index_pos, U64(index_pos)),
      Field(S_conn_count, U32(conn_count)), Field(S_chunk_count, U32(chunk_count))>>

MkBag(fields, region, body) ==
    LET used == VERSION_LEN + 4 + Len(fields) + 4
    IN  [head |-> VERSION_STRING \o U32(Len(fields)) \o fields \o U32(region - used),
         pad |-> region - used, body |-> body]

CodeRegion == VERSION_LEN + ROSBAG_HEADER_SIZE    \* the record alone is 4096 bytes
SpecRegion == ROSBAG_HEADER_SIZE                  \* magic and record are 4096 bytes
RosRegion == VERSION_LEN + ROSBAG_HEADER_SIZE + 8 \* header and data are 4096 bytes

SectionBag(region, chunks, index) ==
    MkBag(Cat(StdFields(region + Len(chunks), 2, 3)), region, chunks \o index)

MinimalBag(region) == MkBag(Cat(StdFields(region, 0, 0)), region, <<>>)

SectionBags ==
    {SectionBag(CodeRegion, Sections[i][1], Sections[i][2]) : i \in 1..Len(Sections)}
    \cup {SectionBag(RosRegion, EmptyChunk, IndexDataRec(1, 7, 0, 0)),
          SectionBag(SpecRegion, EmptyChunk, IndexDataRec(1, 7, 0, 0))}

(* Bag headers with a required field left out, repeated, or malformed.     *)
HeaderBags ==
    {MinimalBag(CodeRegion), MinimalBag(SpecRegion), MinimalBag(RosRegion)}
    \cup {MkBag(Without(StdFields(CodeRegion, 1, 1), k), CodeRegion, <<>>) : k \in 1..4}
    \cup {MkBag(Cat(StdFields(CodeRegion, 1, 1)) \o StdFields(CodeRegion, 1, 1)[k],
                CodeRegion, <<>>) : k \in 1..4}
    \cup {MkBag(Cat(StdFields(CodeRegion, 1, 1)) \o f, CodeRegion, <<>>) :
            f \in {Field(S_ver, U32(1)), UnknownV, <<3, 0, 0, 0, 111, 112, 3>>,
                   <<9, 0, 0, 0, 111, 112>>, Field(<<195, 40>>, <<1>>)}}
    \cup {MkBag(With(StdFields(CodeRegion, 1, 1), k, UnknownX), CodeRegion, <<>>) :
            k \in {1, 3}}
    \cup {MkBag(Cat(<<OpField(op)>> \o Tail(StdFields(CodeRegion, 1, 1))),
                CodeRegion, <<>>) : op \in {Chunk_OP, IndexData_OP}}
    \cup {MkBag(Cat(<<Field(S_op, <<3, 3>>)>> \o Tail(StdFields(CodeRegion, 1, 1))),
                CodeRegion, <<>>),
          MkBag(Cat(<<OpField(ROSBAG_HEADER_OP), Field(S_index_pos, U32(CodeRegion)),
                      Field(S_conn_count, U32(1)), Field(S_chunk_count, U32(1))>>),
                CodeRegion, <<>>),
          MkBag(Cat(StdFields(CodeRegion + 100, 1, 1)), CodeRegion, <<>>),
          MkBag(Cat(StdFields(CodeRegion - 100, 1, 1)), CodeRegion,
                IndexDataRec(1, 7, 0, 0)),
          MkBag(Cat(StdFields(CodeRegion + 2, 1, 1)), CodeRegion, <<0, 0, 0>>)}
    \cup {[head |-> SubSeq(MinimalBag(CodeRegion).head, 1, n), pad |-> 0, body |-> <<>>] :
            n \in {5, VERSION_LEN, VERSION_LEN + 2, VERSION_LEN + 10,
                   Len(MinimalBag(CodeRegion).head) - 4,
                   Len(MinimalBag(CodeRegion).head)}}
    \cup {[MinimalBag(CodeRegion) EXCEPT !.head[10] = 49, !.head[12] = 50]}

Corpus == SectionBags \cup HeaderBags

----------------------------------------------------------------------------
(* The consumer: it opens the bag, takes a section iterator or the message *)
(* iterator of the chunk it was just given, and calls next() and seek().   *)

(* No entries iterator taken.  One that is taken also carries the `count`  *)
(* field of the record's header and the number of entries it has yielded.  *)
NoEntries == [kind |-> "none", data |-> <<>>, pos |-> 0, count |-> 0, yielded |-> 0]

(* The observer either is off, waits to pick a next() call, or holds one:   *)
(* the cursor position it started from, what it returned, and whether the  *)
(* same iterator has since returned an error and taken a successful seek.  *)
ProbeOff == [st |-> "off"]
ProbeIdle == [st |-> "idle"]
ProbeHeld(pre, res) ==
    [st |-> "held", pre |-> pre, res |-> res, failed |-> FALSE, sought |-> FALSE]

ProbeReset(p) == IF p.st = "off" THEN p ELSE ProbeIdle

ProbeAfterNext(p, pre, r) ==
    CASE p.st = "off" -> {p}
      [] p.st = "idle" -> {p, ProbeHeld(pre, r)}
      [] p.st = "held" ->
            {[p EXCEPT !.failed = @ \/ (r.item # None /\ ~r.item[1].ok)]}

ProbeAfterSeek(p, ok) ==
    IF p.st = "held" THEN [p EXCEPT !.sought = @ \/ ok] ELSE p

NoCall == [call |-> "none", arg |-> 0, pre |-> 0, res |-> [ok |-> TRUE]]

Init ==
    /\ store \in Corpus
    /\ bag = [st |-> "closed"]
    /\ it = NoIterator
    /\ last = NoCall
    /\ erred = FALSE
    /\ codec = <<>>
    /\ status = "running"
    /\ probe = ProbeOff
    /\ ent = NoEntries

Open ==
    /\ status = "running"
    /\ bag.st = "closed"
    /\ bag' = RosBag_new(store)
    /\ last' = [call |-> "open", arg |-> 0, pre |-> 0, res |-> [ok |-> bag'.st = "open"]]
    /\ UNCHANGED <<store, it, erred, codec, status, probe, ent>>

TakeSection(call, r) ==
    /\ last' = [call |-> call, arg |-> 0, pre |-> 0, res |-> [ok |-> ~r.panic]]
    /\ IF r.panic
       THEN status' = "panicked" /\ it' = NoIterator
       ELSE status' = status /\ it' = r.iter
    /\ erred' = FALSE
    /\ probe' = ProbeReset(probe)
    /\ ent' = NoEntries
    /\ UNCHANGED <<store, bag, codec>>

ChunkRecords ==
    /\ status = "running"
    /\ bag.st = "open"
    /\ TakeSection("chunk_records", RosBag_chunk_records(bag, store))

IndexRecords ==
    /\ status = "running"
    /\ bag.st = "open"
    /\ TakeSection("index_records", RosBag_index_records(bag, store))

Messages ==
    /\ status = "running"
    /\ last.call = "next"
    /\ last.res.item # None
    /\ last.res.item[1].ok
    /\ last.res.item[1].val.kind = "Chunk"
    /\ it' = Chunk_messages(last.res.item[1].val)
    /\ last' = [call |-> "messages", arg |-> 0, pre |-> 0, res |-> [ok |-> TRUE]]
    /\ erred' = FALSE
    /\ probe' = ProbeReset(probe)
    /\ ent' = NoEntries
    /\ UNCHANGED <<store, bag, codec, status>>

IterNext ==
    /\ status = "running"
    /\ it.kind # "none"
    /\ \E o \in DecoderOutcomes :
         \E r \in {Iterator_next(it, o)} :
         \E asked \in {IF r.item # None /\ "asked" \in DOMAIN r.rec
                       THEN r.rec.asked ELSE None} :
             /\ it' = [it EXCEPT !.pos = r.pos]
             /\ last' = [call |-> "next", arg |-> 0, pre |-> it.pos, res |-> r]
             /\ erred' = (erred \/ (r.item # None /\ ~r.item[1].ok))
             /\ codec' = IF asked # None /\ asked[1] \notin DOMAIN codec
                         THEN codec @@ (asked[1] :> o) ELSE codec
             /\ probe' \in ProbeAfterNext(probe, it.pos, r)
    /\ ent' = NoEntries
    /\ UNCHANGED <<store, bag, status>>

(* The positions of a buffer where a record starts or the last one ends,  *)
(* found by walking the two length prefixes of each record.                *)
RECURSIVE Boundaries(_, _)
Boundaries(data, p) ==
    IF p + 4 > Len(data) THEN {p, Len(data)}
    ELSE Let(p + 4 + LE_read_u32(SubSeq(data, p + 1, p + 4)), LAMBDA q :
             IF q + 4 > Len(data) THEN {p, Len(data)}
             ELSE Let(q + 4 + LE_read_u32(SubSeq(data, q + 1, q + 4)), LAMBDA r :
                      IF r > Len(data) THEN {p, Len(data)}
                      ELSE {p} \cup Boundaries(data, r)))

(* The consumer seeks to a record boundary or up to SeekMargin bytes off   *)
(* one inside the section, to the byte before the section and to the byte  *)
(* past its end.                                                           *)
SeekTargets(self) ==
    LET first == self.offset
        end == self.offset + Len(self.data)
    IN  {p \in {first + b + d : b \in Boundaries(self.data, 0),
                                d \in (0 - SeekMargin)..SeekMargin} :
            p >= first /\ p <= end}
        \cup {p \in {first - 1, end + 1} : p >= 0}

IterSeek ==
    /\ status = "running"
    /\ it.kind # "none"
    /\ \E pos \in SeekTargets(it) :
         \E r \in {Iterator_seek(it, pos)} :
             /\ it' = [it EXCEPT !.pos = r.pos]
             /\ last' = [call |-> "seek", arg |-> pos, pre |-> 0,
                         res |-> [ok |-> r.ok, err |-> IF r.ok THEN None ELSE r.err]]
             /\ probe' = ProbeAfterSeek(probe, r.ok)
    /\ ent' = NoEntries
    /\ UNCHANGED <<store, bag, erred, codec, status>>

(* The consumer takes the entries of the IndexData or ChunkInfo record     *)
(* that next() just returned.                                              *)
Entries ==
    /\ status = "running"
    /\ last.call = "next"
    /\ last.res.item # None
    /\ last.res.item[1].ok
    /\ last.res.item[1].val.kind \in {"IndexData", "ChunkInfo"}
    /\ \E e \in {IF last.res.item[1].val.kind = "IndexData"
                  THEN IndexData_entries(last.res.item[1].val)
                  ELSE ChunkInfo_entries(last.res.item[1].val)} :
         ent' = [kind |-> e.kind, data |-> e.data, pos |-> e.pos, yielded |-> 0,
                 count |-> HeaderGen_read_header(e.kind,
                              Cursor_next_chunk(it.data, last.pre).val).hdr.count[1]]
    /\ last' = [call |-> "entries", arg |-> 0, pre |-> 0, res |-> [ok |-> TRUE]]
    /\ UNCHANGED <<store, bag, it, erred, codec, status, probe>>

EntriesNext ==
    /\ status = "running"
    /\ ent.kind # "none"
    /\ \E r \in {EntriesIterator_next(ent)} :
         /\ ent' = [ent EXCEPT !.pos = r.pos,
                                !.yielded = IF r.item # None THEN @ + 1 ELSE @]
         /\ last' = [call |-> "entry", arg |-> 0, pre |-> ent.pos,
                     res |-> [ok |-> ~r.panic, item |-> r.item]]
         /\ status' = IF r.panic THEN "panicked" ELSE status
    /\ UNCHANGED <<store, bag, it, erred, codec, probe>>

Next ==
    \/ Open \/ ChunkRecords \/ IndexRecords \/ Messages \/ IterNext \/ IterSeek
    \/ Entries \/ EntriesNext

Spec == Init /\ [][Next]_vars

(* The same consumer with the observer on, over a bag whose chunk section  *)
(* is one compressed chunk, and a bag whose index section has a record of  *)
(* the wrong section after a good one.                                     *)
SeekBags ==
    {SectionBag(CodeRegion, ChunkRec(S_bz2, Len(Msg1), Blob), <<>>),
     SectionBag(CodeRegion, EmptyChunk, ChunkInfoRec(1, 0, 0) \o EmptyChunk)}

InitSeek ==
    /\ store \in SeekBags
    /\ bag = [st |-> "closed"]
    /\ it = NoIterator
    /\ last = NoCall
    /\ erred = FALSE
    /\ codec = <<>>
    /\ status = "running"
    /\ probe = ProbeIdle
    /\ ent = NoEntries

SpecSeek == InitSeek /\ [][Next]_vars

----------------------------------------------------------------------------
(* The field iterator on its own: a header buffer of up to MaxFields       *)
(* pieces, each a field or a malformed one, and a consumer calling next(). *)
MaxFields == 2      \* pieces of a header buffer of the field iterator: 0..MaxFields

FieldPieces ==
    {Field(<<97>>, <<1>>), Field(<<>>, <<>>), Field(<<97>>, <<61, 2>>),
     Field(<<97, 195, 169>>, <<200, 61>>), Field(<<97, 195, 40>>, <<1>>),
     Field(<<97, 255>>, <<>>), <<1, 0>>, <<0, 0, 0, 0>>, <<2, 0, 0, 0, 97, 98>>,
     <<100, 0, 0, 0, 97, 61>>, <<3, 0, 0, 0, 97, 61>>}

RECURSIVE FieldBuffers(_)
FieldBuffers(n) ==
    IF n = 0 THEN {<<>>}
    ELSE FieldBuffers(n - 1)
         \cup {b \o f : b \in FieldBuffers(n - 1), f \in FieldPieces}

InitFields ==
    /\ store = MinimalBag(CodeRegion)
    /\ bag = [st |-> "closed"]
    /\ it \in {[kind |-> "fields", data |-> b, pos |-> 0, offset |-> 0] :
                 b \in FieldBuffers(MaxFields)}
    /\ last = NoCall
    /\ erred = FALSE
    /\ codec = <<>>
    /\ status = "running"
    /\ probe = ProbeOff
    /\ ent = NoEntries

FieldNext ==
    /\ it.kind = "fields"
    /\ \E r \in {FieldIterator_next(it.data, it.pos)} :
         /\ it' = [it EXCEPT !.pos = r.pos]
         /\ last' = [call |-> "field", arg |-> 0, pre |-> it.pos, res |-> r]
         /\ erred' = (erred \/ (r.item # None /\ ~r.item[1].ok))
    /\ UNCHANGED <<store, bag, codec, status, probe, ent>>

SpecFields == InitFields /\ [][FieldNext]_vars

----------------------------------------------------------------------------
(* The cursor on its own: a buffer of up to MaxCursorLen bytes that holds  *)
(* length prefixes, and a caller making any sequence of calls.             *)
MaxCursorLen == 10  \* length of the buffer of the cursor: 0..MaxCursorLen

CursorBytes(n) == [i \in 1..n |-> IF i % 6 = 1 THEN 2 ELSE IF i % 6 = 5 THEN 1 ELSE 0]

InitCursor ==
    /\ store = MinimalBag(CodeRegion)
    /\ bag = [st |-> "closed"]
    /\ it \in {[kind |-> "cursor", data |-> CursorBytes(n), pos |-> 0, offset |-> 0] :
                 n \in 0..MaxCursorLen}
    /\ last = NoCall
    /\ erred = FALSE
    /\ codec = <<>>
    /\ status = "running"
    /\ probe = ProbeOff
    /\ ent = NoEntries

(* A call of the cursor that returned r.                                   *)
CursorCall(call, arg, r) ==
    /\ it' = [it EXCEPT !.pos = r.pos]
    /\ last' = [call |-> call, arg |-> arg, pre |-> it.pos,
                res |-> [ok |-> r.ok, len |-> IF r.ok /\ call = "next_bytes"
                                              THEN Len(r.val) ELSE 0]]
    /\ erred' = (erred \/ ~r.ok)
    /\ UNCHANGED <<store, bag, codec, status, probe, ent>>

CursorSeek ==
    /\ status = "running" /\ it.kind = "cursor"
    /\ \E pos \in 0..(Len(it.data) + 2) :
         CursorCall("seek", pos, Cursor_seek(it.data, it.pos, pos))

CursorNextBytes ==
    /\ status = "running" /\ it.kind = "cursor"
    /\ \E n \in 0..(Len(it.data) + 2) :
         CursorCall("next_bytes", n, Cursor_next_bytes(it.data, it.pos, n))

CursorNextBytesOverflow ==
    /\ status = "running" /\ it.kind = "cursor"
    /\ \E k \in 1..it.pos :
         \E p \in Cursor_next_bytes_overflow(it.data, it.pos, k) :
             /\ it' = [it EXCEPT !.pos = p]
             /\ last' = [call |-> "next_bytes_overflow", arg |-> k, pre |-> it.pos,
                         res |-> [ok |-> FALSE, len |-> 0]]
             /\ status' = "panicked"
    /\ UNCHANGED <<store, bag, erred, codec, probe, ent>>

CursorNextU32 ==
    /\ status = "running" /\ it.kind = "cursor"
    /\ CursorCall("next_u32", 0, Cursor_next_u32(it.data, it.pos))

CursorNextChunk ==
    /\ status = "running" /\ it.kind = "cursor"
    /\ CursorCall("next_chunk", 0, Cursor_next_chunk(it.data, it.pos))

CursorNextTime ==
    /\ status = "running" /\ it.kind = "cursor"
    /\ CursorCall("next_time", 0, Cursor_next_time(it.data, it.pos))

NextCursor ==
    \/ CursorSeek \/ CursorNextBytes \/ CursorNextBytesOverflow
    \/ CursorNextU32 \/ CursorNextChunk \/ CursorNextTime

SpecCursor == InitCursor /\ [][NextCursor]_vars

----------------------------------------------------------------------------
(* What the properties below read off a state.                             *)

(* The last call was a next() that returned an item.                       *)
NextReturnedItem == last.call = "next" /\ last.res.item # None

(* The header bytes of the record the last next() started on, and the      *)
(* cursor after them.                                                      *)
RecHeader == Cursor_next_chunk(it.data, last.pre)

(* How often a field of the given name occurs among the well-formed fields *)
(* of a header.                                                            *)
RECURSIVE FieldCount(_, _)
FieldCount(buf, name) ==
    IF buf = <<>> THEN 0
    ELSE Let(read_record(buf), LAMBDA r :
             IF ~r.ok THEN 0
             ELSE (IF r.name = name THEN 1 ELSE 0) + FieldCount(r.rest, name))

(* The values of the `op` fields among the well-formed fields of a header. *)
RECURSIVE OpValues(_)
OpValues(buf) ==
    IF buf = <<>> THEN <<>>
    ELSE Let(read_record(buf), LAMBDA r :
             IF ~r.ok THEN <<>>
             ELSE (IF r.name = S_op THEN <<r.val>> ELSE <<>>) \o OpValues(r.rest))

(* The first `op` field of a header: wf says that every field up to and    *)
(* including it (every field, when there is none) is well-formed.          *)
RECURSIVE FirstOp(_)
FirstOp(buf) ==
    IF buf = <<>> THEN [wf |-> TRUE, op |-> None]
    ELSE Let(read_record(buf), LAMBDA r :
             IF ~r.ok THEN [wf |-> FALSE, op |-> None]
             ELSE IF r.name = S_op THEN [wf |-> TRUE, op |-> Some(r.val)]
             ELSE FirstOp(r.rest))

OpKind(op) ==
    CASE op = 2 -> "MessageData" [] op = 4 -> "IndexData" [] op = 5 -> "Chunk"
      [] op = 6 -> "ChunkInfo" [] op = 7 -> "Connection" [] OTHER -> "none"

(* The record the last next() started on has a header that names the given *)
(* variant and parses as that variant's header.                            *)
RecIs(kind) ==
    /\ NextReturnedItem
    /\ RecHeader.ok
    /\ Let(FirstOp(RecHeader.val), LAMBDA f :
           f.wf /\ f.op # None /\ Len(f.op[1]) = 1 /\ OpKind(f.op[1][1]) = kind)
    /\ HeaderGen_read_header(kind, RecHeader.val).ok

RecParsedHeader(kind) == HeaderGen_read_header(kind, RecHeader.val).hdr

(* The header of the bag file.                                             *)
BagHeaderBytes == ObjectCursor_read_chunk(store, VERSION_LEN)

----------------------------------------------------------------------------
SeekOutcome ==
    (last.call = "seek" /\ it.kind \in {"chunk", "index"}) =>
        IF last.arg < it.offset \/ last.arg > it.offset + Len(it.data)
        THEN ~last.res.ok /\ last.res.err = OutOfBounds
        ELSE last.res.ok /\ it.pos = last.arg - it.offset

(* C3: seek(pos) on a chunk or index section iterator is OutOfBounds when  *)
(* pos < offset or pos > offset + len, and otherwise succeeds and puts the *)
(* cursor at pos - offset; seek(offset + len) succeeds and the next()      *)
(* that follows it is None; seek(offset + len + 1) is OutOfBounds.         *)
C3_seek_bounds ==
    [][/\ SeekOutcome'
       /\ (/\ last.call = "seek"
           /\ it.kind \in {"chunk", "index"}
           /\ last.arg = it.offset + Len(it.data)
           /\ last'.call = "next")
          => (last.res.ok /\ last'.res.item = None)]_vars

(* A seek to the end of a non-empty section succeeded.                     *)
C3_witness ==
    /\ last.call = "seek"
    /\ it.kind = "index"
    /\ Len(it.data) > 0
    /\ last.arg = it.offset + Len(it.data)
    /\ last.res.ok
    /\ it.pos = Len(it.data)

(* C4: an iterator yields Ok only for a successfully parsed record of one  *)
(* of its variants, and every other successfully parsed record as its own  *)
(* Unexpected...Record error that carries the record's kind name.          *)
C4_allowed_variants ==
    NextReturnedItem =>
        Let(last.res.item[1], LAMBDA item :
        Let(last.res.rec, LAMBDA rec :
        Let(CASE it.kind = "chunk" ->
                    <<{"Chunk", "IndexData"}, "UnexpectedChunkSectionRecord">>
              [] it.kind = "index" ->
                    <<{"IndexData", "Connection", "ChunkInfo"},
                      "UnexpectedIndexSectionRecord">>
              [] it.kind = "msg" ->
                    <<{"MessageData", "Connection"}, "UnexpectedMessageRecord">>,
            LAMBDA rule :
              /\ item.ok => (rec.ok /\ rec.val.kind \in rule[1] /\ item.val = rec.val)
              /\ (rec.ok /\ rec.val.kind \in rule[1]) => item.ok
              /\ (rec.ok /\ rec.val.kind \notin rule[1])
                    => (~item.ok /\ item.err = <<rule[2], rec.val.kind>>))))

(* A ChunkInfo record was met in the chunk section.                        *)
C4_witness ==
    /\ NextReturnedItem
    /\ it.kind = "chunk"
    /\ last.res.item[1] = Err(<<"UnexpectedChunkSectionRecord", "ChunkInfo">>)

(* C5: next() returns None exactly when the cursor has no bytes left, also *)
(* after calls that returned an error.                                     *)
C5_none_iff_exhausted ==
    [][last'.call = "next" =>
         /\ (last'.res.item = None) <=> (Len(it.data) - it.pos = 0)
         /\ (erred /\ Len(it.data) - it.pos > 0) => last'.res.item # None]_vars

(* After an error the iterator went on to return a record.                 *)
C5_witness ==
    /\ erred
    /\ NextReturnedItem
    /\ last.res.item[1].ok
    /\ last.pre > 0

(* C6 (as the claim states it): next_record is InvalidRecord whenever the  *)
(* header has no `op` field, an `op` field whose value is not 1 byte long, *)
(* or a 1-byte `op` that is none of 2, 4, 5, 6, 7.                         *)
C6_invalid_record_whenever_no_op ==
    (NextReturnedItem /\ RecHeader.ok) =>
        Let(OpValues(RecHeader.val), LAMBDA ops :
            (\/ ops = <<>>
             \/ \E i \in 1..Len(ops) : Len(ops[i]) # 1
             \/ ops[1][1] \notin {2, 4, 5, 6, 7})
            => (~last.res.rec.ok /\ last.res.rec.err = InvalidRecord))

(* C6 (amended): when every header field up to and including the first     *)
(* `op` field (every field, when there is none) is well-formed,            *)
(* next_record is InvalidRecord if there is no `op` field, if the first    *)
(* one is not 1 byte long, or if it is none of 2, 4, 5, 6, 7; a malformed  *)
(* field met before any `op` field is a header error instead; and a record *)
(* is returned only when the first `op` is one of the five, as the variant *)
(* of that opcode.                                                         *)
C6_invalid_record_when_fields_well_formed ==
    (NextReturnedItem /\ RecHeader.ok) =>
        Let(FirstOp(RecHeader.val), LAMBDA f :
        Let(last.res.rec, LAMBDA rec :
            /\ (/\ f.wf
                /\ \/ f.op = None
                   \/ Len(f.op[1]) # 1
                   \/ f.op[1][1] \notin {2, 4, 5, 6, 7})
               => (~rec.ok /\ rec.err = InvalidRecord)
            /\ ~f.wf => (~rec.ok /\ rec.err \in {InvalidHeader, FromUtf8Error})
            /\ rec.ok => /\ f.wf
                         /\ f.op # None
                         /\ Len(f.op[1]) = 1
                         /\ f.op[1][1] \in {2, 4, 5, 6, 7}
                         /\ rec.val.kind = OpKind(f.op[1][1])))

(* A header of well-formed fields without `op` was read.                   *)
C6_witness ==
    /\ NextReturnedItem
    /\ RecHeader.ok
    /\ RecHeader.val # <<>>
    /\ FirstOp(RecHeader.val) = [wf |-> TRUE, op |-> None]
    /\ ~last.res.rec.ok
    /\ last.res.rec.err = InvalidRecord

(* C7: the bag is opened only if index_pos, conn_count, chunk_count and    *)
(* the op field each occur exactly once in the bag header.                 *)
C7_each_field_exactly_once ==
    bag.st = "open" =>
        \A name \in {S_op, S_index_pos, S_conn_count, S_chunk_count} :
            FieldCount(BagHeaderBytes.val, name) = 1

(* A bag whose header holds the op field twice was opened.                 *)
C7_witness ==
    /\ bag.st = "open"
    /\ FieldCount(BagHeaderBytes.val, S_op) = 2
    /\ OpValues(BagHeaderBytes.val) = <<(<<ROSBAG_HEADER_OP>>), (<<ROSBAG_HEADER_OP>>)>>

(* C8: an IndexData (entry size 12) or ChunkInfo (entry size 8) record     *)
(* with ver = 1 and every required field parses only if its data length is *)
(* a multiple of the entry size and the quotient is `count`; otherwise it  *)
(* is InvalidRecord.                                                       *)
C8_data_len_matches_count ==
    \A kind \in {"IndexData", "ChunkInfo"} :
        (/\ RecIs(kind)
         /\ \A f \in DOMAIN RecParsedHeader(kind) : RecParsedHeader(kind)[f] # None
         /\ RecParsedHeader(kind).ver = Some(1)
         /\ Cursor_next_u32(it.data, RecHeader.pos).ok) =>
            Let(Cursor_next_u32(it.data, RecHeader.pos).val, LAMBDA n :
            Let(IF kind = "IndexData" THEN 12 ELSE 8, LAMBDA entry :
            Let(last.res.rec, LAMBDA rec :
                IF n % entry = 0 /\ n \div entry = RecParsedHeader(kind).count[1]
                THEN IF RecHeader.pos + 4 + n <= Len(it.data)
                     THEN /\ rec.ok
                          /\ rec.val.kind = kind
                          /\ Len(rec.val.data) = entry * RecParsedHeader(kind).count[1]
                     ELSE ~rec.ok /\ rec.err = OutOfBounds
                ELSE ~rec.ok /\ rec.err = InvalidRecord)))

(* An IndexData record with count = 3 and 32 bytes of data was read.       *)
C8_witness ==
    /\ RecIs("IndexData")
    /\ RecParsedHeader("IndexData").ver = Some(1)
    /\ RecParsedHeader("IndexData").count = Some(3)
    /\ Cursor_next_u32(it.data, RecHeader.pos) = [ok |-> TRUE, pos |-> RecHeader.pos + 4,
                                                  val |-> 32]
    /\ ~last.res.rec.ok
    /\ last.res.rec.err = InvalidRecord

(* C9: an IndexData or ChunkInfo record with every required field and      *)
(* ver # 1 is UnsupportedVersion whatever its data, with the cursor left   *)
(* at the end of the header; a required field that is absent is            *)
(* InvalidHeader, whatever the version.                                    *)
C9_version_before_data ==
    \A kind \in {"IndexData", "ChunkInfo"} :
        RecIs(kind) =>
            Let(RecParsedHeader(kind), LAMBDA hdr :
            Let(last.res.rec, LAMBDA rec :
                IF \E f \in DOMAIN hdr : hdr[f] = None
                THEN ~rec.ok /\ rec.err = InvalidHeader
                ELSE hdr.ver # Some(1) =>
                        /\ ~rec.ok
                        /\ rec.err = UnsupportedVersion
                        /\ rec.pos = RecHeader.pos
                        /\ it.pos = RecHeader.pos))

(* A ChunkInfo record of version 0 whose data length does not match its    *)
(* count was read.                                                         *)
C9_witness ==
    /\ RecIs("ChunkInfo")
    /\ RecParsedHeader("ChunkInfo").ver = Some(0)
    /\ RecParsedHeader("ChunkInfo").count = Some(1)
    /\ Cursor_next_u32(it.data, RecHeader.pos) = [ok |-> TRUE, pos |-> RecHeader.pos + 4,
                                                  val |-> 4]
    /\ ~last.res.rec.ok
    /\ last.res.rec.err = UnsupportedVersion

(* C10: a Chunk that is returned holds a buffer of exactly `size` bytes;   *)
(* a decompressed length other than `size` (the data length, without       *)
(* compression) is InvalidRecord; and the message iterator of an empty     *)
(* chunk returns None.                                                     *)
C10_chunk_length_is_size ==
    /\ (RecIs("Chunk") /\ \A f \in DOMAIN RecParsedHeader("Chunk") :
                              RecParsedHeader("Chunk")[f] # None) =>
          Let(RecParsedHeader("Chunk"), LAMBDA hdr :
          Let(Cursor_next_chunk(it.data, RecHeader.pos), LAMBDA c :
          Let(last.res.rec, LAMBDA rec :
              /\ rec.ok => (rec.val.kind = "Chunk" /\ Len(rec.val.data) = hdr.size[1])
              /\ c.ok =>
                   IF hdr.compression[1] = "None"
                   THEN IF Len(c.val) = hdr.size[1]
                        THEN rec.ok /\ rec.val.data = c.val
                        ELSE ~rec.ok /\ rec.err = InvalidRecord
                   ELSE Let(codec[<<hdr.compression[1], c.val, hdr.size>>], LAMBDA d :
                            IF ~d.ok
                            THEN ~rec.ok /\ rec.err \in {Bzip2DecompressionError,
                                                         Lz4DecompressionError}
                            ELSE IF Len(d.out) = hdr.size[1]
                            THEN rec.ok /\ rec.val.data = d.out
                            ELSE ~rec.ok /\ rec.err = InvalidRecord))))
    /\ (it.kind = "msg" /\ it.data = <<>> /\ last.call = "next") => last.res.item = None

(* A compressed chunk was returned.                                        *)
C10_witness ==
    /\ RecIs("Chunk")
    /\ last.res.rec.ok
    /\ last.res.rec.val.compression = "Bzip2"
    /\ Len(last.res.rec.val.data) = Len(Msg1)
    /\ Cursor_next_chunk(it.data, RecHeader.pos).ok
    /\ Cursor_next_chunk(it.data, RecHeader.pos).val = Blob

(* C11: a next_record that succeeds from cursor position p leaves the      *)
(* cursor at p + 4 + header_len + 4 + data_len, with header_len the u32 at *)
(* p and data_len the u32 at p + 4 + header_len; so the next record is     *)
(* read from where this one ends.                                          *)
C11_cursor_after_record ==
    (NextReturnedItem /\ last.res.rec.ok) =>
        Let(LE_read_u32(SubSeq(it.data, last.pre + 1, last.pre + 4)), LAMBDA header_len :
        Let(LE_read_u32(SubSeq(it.data, last.pre + 4 + header_len + 1,
                               last.pre + 4 + header_len + 4)), LAMBDA data_len :
            /\ last.res.rec.pos = last.pre + 4 + header_len + 4 + data_len
            /\ it.pos = last.pre + 4 + header_len + 4 + data_len
            /\ it.pos <= Len(it.data)))

(* A second record with data was read from where the first one ended.      *)
C11_witness ==
    /\ NextReturnedItem
    /\ last.res.rec.ok
    /\ last.pre > 0
    /\ last.res.rec.val.kind = "IndexData"
    /\ Len(last.res.rec.val.data) = 24
    /\ it.pos = Len(it.data)

----------------------------------------------------------------------------
(* The field names each header knows.                                      *)
KnownNames(kind) ==
    CASE kind = "BagHeader" -> {S_op, S_index_pos, S_conn_count, S_chunk_count}
      [] kind = "MessageData" -> {S_op, S_conn, S_time}
      [] kind = "IndexData" -> {S_op, S_ver, S_conn, S_count}
      [] kind = "Chunk" -> {S_op, S_compression, S_size}
      [] kind = "ChunkInfo" ->
            {S_op, S_ver, S_chunk_pos, S_start_time, S_end_time, S_count}
      [] kind = "Connection" -> {S_op, S_conn, S_topic}
      [] kind = "ConnectionData" ->
            {S_topic, S_type, S_md5sum, S_message_definition, S_callerid, S_latching}

(* A header without its well-formed fields of unknown names.               *)
RECURSIVE StripUnknown(_, _)
StripUnknown(buf, known) ==
    IF buf = <<>> THEN <<>>
    ELSE Let(read_record(buf), LAMBDA r :
             IF ~r.ok THEN buf
             ELSE (IF r.name \in known THEN SubSeq(buf, 1, Len(buf) - Len(r.rest))
                   ELSE <<>>) \o StripUnknown(r.rest, known))

(* The variant the header of the record of the last next() names.          *)
RecKind ==
    IF ~RecHeader.ok THEN "none"
    ELSE Let(FirstOp(RecHeader.val), LAMBDA f :
             IF f.wf /\ f.op # None /\ Len(f.op[1]) = 1 THEN OpKind(f.op[1][1])
             ELSE "none")

(* The bytes after the header of that record, with the unknown fields of a *)
(* Connection's second header taken out.                                   *)
RecDataStripped ==
    Let(Cursor_next_chunk(it.data, RecHeader.pos), LAMBDA d :
        IF RecKind = "Connection" /\ d.ok
        THEN Let(StripUnknown(d.val, KnownNames("ConnectionData")), LAMBDA f :
                 U32(Len(f)) \o f \o SubSeq(it.data, d.pos + 1, Len(it.data)))
        ELSE SubSeq(it.data, RecHeader.pos + 1, Len(it.data)))

(* The buffer from that record on, the record without its unknown fields.  *)
RecStripped ==
    Let(StripUnknown(RecHeader.val, KnownNames(RecKind)), LAMBDA h :
        U32(Len(h)) \o h \o RecDataStripped)

RecHasUnknown ==
    /\ NextReturnedItem
    /\ RecKind # "none"
    /\ RecStripped # SubSeq(it.data, last.pre + 1, Len(it.data))

(* The bag file with the unknown fields of its header replaced by padding. *)
StoreStripped ==
    Let(StripUnknown(BagHeaderBytes.val, KnownNames("BagHeader")), LAMBDA h :
        [store EXCEPT
            !.head = VERSION_STRING \o U32(Len(h)) \o h
                       \o SubSeq(store.head, Len(store.head) - 3, Len(store.head)),
            !.pad = @ + (Len(BagHeaderBytes.val) - Len(h))])

BagHasUnknown ==
    /\ BagHeaderBytes.ok
    /\ store.head = VERSION_STRING \o U32(Len(BagHeaderBytes.val)) \o BagHeaderBytes.val
                       \o SubSeq(store.head, Len(store.head) - 3, Len(store.head))
    /\ StripUnknown(BagHeaderBytes.val, KnownNames("BagHeader")) # BagHeaderBytes.val

(* C13: unknown header fields are ignored.  When the bag header, or the    *)
(* header (for a Connection, either header) of the record next() started   *)
(* on, holds well-formed fields of unknown names, and the same bytes       *)
(* without those fields parse, then the bytes with them parse too and to   *)
(* the same bag or record.                                                 *)
C13_unknown_fields_ignored ==
    /\ (last.call = "open" /\ BagHasUnknown /\ RosBag_new(StoreStripped).st = "open") =>
           bag = RosBag_new(StoreStripped)
    /\ RecHasUnknown =>
           \A o \in DecoderOutcomes :
               Let(Iterator_next([it EXCEPT !.data = RecStripped, !.pos = 0], o),
                   LAMBDA s :
                   (s.item # None /\ s.item[1].ok) =>
                       /\ last.res.item[1].ok
                       /\ last.res.item[1].val = s.item[1].val)

(* A Connection with an unknown field in each of its headers was parsed.   *)
C13_witness ==
    /\ RecHasUnknown
    /\ RecKind = "Connection"
    /\ StripUnknown(RecHeader.val, KnownNames("Connection")) # RecHeader.val
    /\ Len(RecStripped) + 2 * Len(UnknownX) = Len(it.data) - last.pre
    /\ last.res.item[1].ok
    /\ last.res.item[1].val.kind = "Connection"

(* C14 (as the claim states it): for a bag that open accepted,             *)
(* chunk_records() and index_records() return an iterator and never abort  *)
(* the program; a section that cannot be read is reported as an error.     *)
C14_sections_never_panic ==
    (bag.st = "open" /\ last.call \in {"chunk_records", "index_records"}) =>
        (status # "panicked" /\ last.res.ok /\ it.kind # "none")

(* chunk_records() aborted on an opened bag whose index_pos lies before    *)
(* start_pos.                                                              *)
C14_witness ==
    /\ bag.st = "open"
    /\ last.call = "chunk_records"
    /\ status = "panicked"
    /\ bag.index_pos < bag.start_pos

----------------------------------------------------------------------------
(* The buffer the last call of the field iterator started on.              *)
FieldBuf == SubSeq(it.data, last.pre + 1, Len(it.data))

(* The length its first four bytes declare.                                *)
FieldDeclared == FieldBuf[1] + 256 * FieldBuf[2] + 65536 * FieldBuf[3]
                   + 16777216 * FieldBuf[4]

FieldBody == SubSeq(FieldBuf, 5, 4 + FieldDeclared)

(* The four ways a field is malformed.                                     *)
FieldTruncatedLength == Len(FieldBuf) < 4
FieldTruncatedBody == ~FieldTruncatedLength /\ FieldDeclared > Len(FieldBuf) - 4
FieldWithoutEq ==
    /\ ~FieldTruncatedLength /\ ~FieldTruncatedBody
    /\ \A i \in 1..Len(FieldBody) : FieldBody[i] # 61
FieldNameNotUtf8 ==
    /\ ~FieldTruncatedLength /\ ~FieldTruncatedBody /\ ~FieldWithoutEq
    /\ ~utf8_valid(SubSeq(FieldBody, 1, position_eq(FieldBody) - 1))

(* C15 (as the claim states it): on a non-empty buffer the field iterator  *)
(* fails with InvalidHeader when fewer than 4 bytes remain, when the       *)
(* declared length exceeds the remaining bytes, when the field has no `=`  *)
(* and when the bytes before the first `=` are not valid UTF-8; otherwise  *)
(* it yields (name, value) split at the first `=` and goes on with the     *)
(* bytes after the field; on an empty buffer it ends.                      *)
C15_field_iterator ==
    last.call = "field" =>
        IF FieldBuf = <<>> THEN last.res.item = None
        ELSE IF \/ FieldTruncatedLength \/ FieldTruncatedBody
                \/ FieldWithoutEq \/ FieldNameNotUtf8
             THEN last.res.item = Some(Err(InvalidHeader))
        ELSE Let(position_eq(FieldBody), LAMBDA eq :
                 /\ last.res.item =
                        Some([ok |-> TRUE, name |-> SubSeq(FieldBody, 1, eq - 1),
                              val |-> SubSeq(FieldBody, eq + 1, Len(FieldBody))])
                 /\ it.pos = last.pre + 4 + FieldDeclared)

(* A field whose name is not valid UTF-8 was read, after a good field.     *)
C15_witness ==
    /\ last.call = "field"
    /\ last.pre > 0
    /\ FieldNameNotUtf8
    /\ last.res.item = Some(Err(FromUtf8Error))

----------------------------------------------------------------------------
(* The values of the fields of a name among the well-formed fields of a    *)
(* header, and the header without those fields.                            *)
RECURSIVE FieldValues(_, _)
FieldValues(buf, name) ==
    IF buf = <<>> THEN <<>>
    ELSE Let(read_record(buf), LAMBDA r :
             IF ~r.ok THEN <<>>
             ELSE (IF r.name = name THEN <<r.val>> ELSE <<>>) \o FieldValues(r.rest, name))

RECURSIVE WithoutField(_, _)
WithoutField(buf, name) ==
    IF buf = <<>> THEN <<>>
    ELSE Let(read_record(buf), LAMBDA r :
             IF ~r.ok THEN buf
             ELSE (IF r.name = name THEN <<>>
                   ELSE SubSeq(buf, 1, Len(buf) - Len(r.rest)))
                  \o WithoutField(r.rest, name))

(* The second header of the Connection record the last next() started on.  *)
ConnData == Cursor_next_chunk(it.data, RecHeader.pos)

(* The record is a Connection that parses once its latching field, the     *)
(* only one it has, is taken out.                                          *)
ConnValidButForLatching ==
    /\ RecIs("Connection")
    /\ ConnData.ok
    /\ Len(FieldValues(ConnData.val, S_latching)) <= 1
    /\ Let(WithoutField(ConnData.val, S_latching), LAMBDA f :
           Connection_read_data(U32(Len(f)) \o f, 0, RecParsedHeader("Connection")).ok)

(* C16 (as the claim states it): in the second header of a Connection,     *)
(* latching is false and callerid is empty when absent; a latching value   *)
(* is accepted only if it is the single byte '0' (false) or '1' (true);    *)
(* an empty value, another byte, or more than one byte such as "10" makes  *)
(* the record fail with InvalidRecord.                                     *)
C16_latching_single_byte ==
    ConnValidButForLatching =>
        Let(FieldValues(ConnData.val, S_latching), LAMBDA vals :
            /\ vals = <<>> =>
                   (last.res.rec.ok /\ last.res.rec.val.latching = FALSE)
            /\ (vals # <<>> /\ vals[1] \in {<<48>>, <<49>>}) =>
                   (last.res.rec.ok /\ last.res.rec.val.latching = (vals[1] = <<49>>))
            /\ (vals # <<>> /\ vals[1] \notin {<<48>>, <<49>>}) =>
                   (~last.res.rec.ok /\ last.res.rec.err = InvalidRecord)
            /\ (last.res.rec.ok /\ FieldValues(ConnData.val, S_callerid) = <<>>) =>
                   last.res.rec.val.caller_id = <<>>)

(* A Connection whose latching value is "10" was parsed, latching = true.  *)
C16_witness ==
    /\ ConnValidButForLatching
    /\ FieldValues(ConnData.val, S_latching) = <<(<<49, 48>>)>>
    /\ last.res.rec.ok
    /\ last.res.rec.val.latching = TRUE

(* C17: after any sequence of seek, next_bytes, next_u32, next_chunk and   *)
(* next_time calls on a Cursor, whether they succeed or fail,              *)
(* 0 <= pos <= len, so left() is not negative; a seek or next_bytes that   *)
(* fails leaves pos where it was, and a next_bytes(n) that succeeds        *)
(* returns n bytes and moves pos by n.                                     *)
C17_cursor_invariant ==
    it.kind = "cursor" =>
        /\ 0 <= it.pos
        /\ it.pos <= Cursor_len(it.data)
        /\ Cursor_left(it.data, it.pos) >= 0
        /\ (last.call \in {"seek", "next_bytes"} /\ ~last.res.ok) => it.pos = last.pre
        /\ (last.call = "next_bytes" /\ last.res.ok) =>
               (it.pos = last.pre + last.arg /\ last.res.len = last.arg)

(* A next_bytes that asked for more than is left failed in the middle of   *)
(* the buffer, after a next_chunk had failed past its length prefix.       *)
C17_witness ==
    /\ it.kind = "cursor"
    /\ last.call = "next_bytes"
    /\ ~last.res.ok
    /\ erred
    /\ last.pre > 0
    /\ last.pre < Cursor_len(it.data)
    /\ last.pre + last.arg > Cursor_len(it.data)

(* C18: the entries iterator of an IndexData or ChunkInfo record that the  *)
(* parser returned yields `count` entries, count being the field of the    *)
(* record's header, and then None (at once when count is 0); it never      *)
(* reaches the panic on leftover data.                                     *)
C18_entries_count ==
    ent.kind # "none" =>
        /\ status # "panicked"
        /\ ent.yielded <= ent.count
        /\ last.call = "entry" =>
               /\ last.res.ok
               /\ (last.res.item = None) <=> (ent.yielded = ent.count /\ ent.pos = last.pre)
               /\ (last.res.item # None) =>
                      ent.pos = last.pre + (IF ent.kind = "IndexData" THEN 12 ELSE 8)

(* The entries iterator of an IndexData with MaxEntries entries ended.     *)
C18_witness ==
    /\ ent.kind = "IndexData"
    /\ ent.count = MaxEntries
    /\ ent.yielded = MaxEntries
    /\ last.call = "entry"
    /\ last.res.item = None

(* C19 (as the claim states it): every next() that returns Some strictly   *)
(* decreases the bytes left of the cursor, so that a consumer who keeps    *)
(* calling next(), ignoring Err items, gets None after finitely many       *)
(* calls, for any buffer and starting position.                            *)
C19_some_decreases_left ==
    NextReturnedItem =>
        Cursor_left(it.data, it.pos) < Cursor_left(it.data, last.pre)

(* C19 (amended): a next() that returns Some started with at least 4 bytes *)
(* left strictly decreases the bytes left; started with 1 to 3 bytes left  *)
(* it returns Err(OutOfBounds) and leaves the cursor where it was, and so  *)
(* does every next() after it.                                             *)
C19_some_decreases_left_from_4 ==
    NextReturnedItem =>
        IF Cursor_left(it.data, last.pre) >= 4
        THEN Cursor_left(it.data, it.pos) < Cursor_left(it.data, last.pre)
        ELSE /\ Cursor_left(it.data, last.pre) > 0
             /\ it.pos = last.pre
             /\ last.res.item = Some(Err(OutOfBounds))
             /\ \A o \in DecoderOutcomes :
                    /\ Iterator_next(it, o).item = last.res.item
                    /\ Iterator_next(it, o).pos = it.pos

(* A next() with 3 bytes left returned an error and did not move, after    *)
(* the next() before it had read a record up to there.                     *)
C19_witness ==
    /\ NextReturnedItem
    /\ last.pre > 0
    /\ Cursor_left(it.data, last.pre) = 3
    /\ it.pos = last.pre
    /\ ~last.res.item[1].ok
    /\ probe.st = "off"

====
